---- MODULE Spec2Model ----
(***************************************************************************)
(* The adapter registry and dispatch core of the Ava Bot MCP server        *)
(* (mcp_server/run_server.py): SilentAdapterLoader.load_all_adapters,      *)
(* CleanMCPServer.initialize, AvaBotServicer.ExecuteTool and               *)
(* start_grpc_server, with the Python values the adapters return.         *)
(***************************************************************************)
EXTENDS Integers, Sequences, FiniteSets, TLC

(***************************************************************************)
(* Bounds of the model.                                                    *)
(***************************************************************************)
\* At most this many declared adapters construct and pass the shape check
\* in one run of the loader (the environment decides which ones).
MaxLoaded == 2

\* At most this many requests are served (request_count is unbounded).
MaxRequests == 1

\* The worker threads of the pool the model runs (the pool has max_workers).
MaxWorkers == 2

\* At most this many ListTools and ExecuteTool requests are given to the pool.
MaxPoolRequests == 3

\* the calls of GmailAdapter.execute on one instance
MaxExecutes == 2

\* the temporary files the calls of _openai_text_to_speech create
MaxSpeeches == 2

\* the pieces of text of ava_bot_pb2_grpc.py as protoc writes it
MaxPieces == 4

\* the calls of fix_protobuf_imports
MaxFixes == 2

(***************************************************************************)
(* Python values.  A str is a sequence of pieces of text ("" is <<>>), so  *)
(* that str() and repr() build their output by concatenation.  A dict is   *)
(* its sequence of <<key, value>> pairs in insertion order.                *)
(***************************************************************************)
PyStr(s) == [t |-> "str", s |-> s]
PyNone == [t |-> "NoneType"]
PyBool(b) == [t |-> "bool", b |-> b]
PyInt(n) == [t |-> "int", n |-> n]
\* bytes: a sequence of byte values (0..9 in the values used here)
PyBytes(bs) == [t |-> "bytes", bs |-> bs]
PyList(items) == [t |-> "list", items |-> items]
PyTuple(items) == [t |-> "tuple", items |-> items]
PyDict(items) == [t |-> "dict", items |-> items]

\* No value: an attribute an object does not have, a variable not yet bound.
NoValue == [none |-> TRUE]

\* The outcome of evaluating a Python expression: a value, or an exception.
\* base tells whether the exception's class derives from Exception (caught by
\* `except Exception`) or only from BaseException (SystemExit,
\* KeyboardInterrupt), which `except Exception` lets through.
Returns(v) == [ok |-> TRUE, value |-> v]
Raises(cls, base, msg) == [ok |-> FALSE, exc |-> cls, base |-> base, msg |-> msg]

Digits == <<"0", "1", "2", "3", "4", "5", "6", "7", "8", "9">>

\* str(n) for the small non-negative integers the values here hold
int_str(n) == <<Digits[n + 1]>>

RECURSIVE bytes_repr(_)
bytes_repr(bs) ==
    IF Len(bs) = 0 THEN <<>>
    ELSE <<"\\x0", Digits[Head(bs) + 1]>> \o bytes_repr(Tail(bs))

RECURSIVE repr(_), repr_items(_), repr_pairs(_)
\* repr(v): what str() shows of a value inside a container
repr(v) ==
    CASE v.t = "str" -> <<"'">> \o v.s \o <<"'">>
      [] v.t = "bytes" -> <<"b'">> \o bytes_repr(v.bs) \o <<"'">>
      [] v.t = "NoneType" -> <<"None">>
      [] v.t = "bool" -> IF v.b THEN <<"True">> ELSE <<"False">>
      [] v.t = "int" -> int_str(v.n)
      [] v.t = "list" -> <<"[">> \o repr_items(v.items) \o <<"]">>
      [] v.t = "tuple" ->
            <<"(">> \o repr_items(v.items)
                \o (IF Len(v.items) = 1 THEN <<",">> ELSE <<>>) \o <<")">>
      [] v.t = "dict" -> <<"{">> \o repr_pairs(v.items) \o <<"}">>

repr_items(items) ==
    IF Len(items) = 0 THEN <<>>
    ELSE repr(Head(items))
            \o (IF Len(items) > 1 THEN <<", ">> \o repr_items(Tail(items)) ELSE <<>>)

repr_pairs(items) ==
    IF Len(items) = 0 THEN <<>>
    ELSE repr(Head(items)[1]) \o <<": ">> \o repr(Head(items)[2])
            \o (IF Len(items) > 1 THEN <<", ">> \o repr_pairs(Tail(items)) ELSE <<>>)

\* str(v): a str is itself, anything else is shown by repr
str(v) == IF v.t = "str" THEN v.s ELSE repr(v)

isinstance_dict(v) == v.t = "dict"

\* key in d
dict_contains(d, k) == \E i \in 1..Len(d.items) : d.items[i][1] = k

\* d.get(k, default)
dict_get(d, k, default) ==
    IF dict_contains(d, k)
    THEN d.items[CHOOSE i \in 1..Len(d.items) : d.items[i][1] = k][2]
    ELSE default

\* c[0] for any value c
subscript0(c) ==
    CASE c.t \in {"list", "tuple"} ->
            IF Len(c.items) > 0 THEN Returns(c.items[1])
            ELSE Raises("IndexError", "Exception", <<"list index out of range">>)
      [] c.t = "str" ->
            IF Len(c.s) > 0 THEN Returns(PyStr(<<c.s[1]>>))
            ELSE Raises("IndexError", "Exception", <<"string index out of range">>)
      [] c.t = "bytes" ->
            IF Len(c.bs) > 0 THEN Returns(PyInt(c.bs[1]))
            ELSE Raises("IndexError", "Exception", <<"index out of range">>)
      [] c.t = "dict" ->
            IF dict_contains(c, PyInt(0)) THEN Returns(dict_get(c, PyInt(0), PyNone))
            ELSE Raises("KeyError", "Exception", <<"0">>)
      [] OTHER ->
            Raises("TypeError", "Exception", <<"'">> \o <<c.t>> \o <<"' object is not subscriptable">>)

\* e.get(k, default) for any value e: only a dict has the method
method_get(e, k, default) ==
    IF e.t = "dict" THEN Returns(dict_get(e, k, default))
    ELSE Raises("AttributeError", "Exception",
                <<"'">> \o <<e.t>> \o <<"' object has no attribute 'get'">>)

(***************************************************************************)
(* JSON.  A text is either a JSON document, modelled by its syntax tree,   *)
(* or a string that is no JSON document (the empty string included).       *)
(***************************************************************************)
JsonText(doc) == [form |-> "json", doc |-> doc]
RawText(s) == [form |-> "raw", s |-> s]

JString(s) == [j |-> "string", s |-> s]
JNull == [j |-> "null"]
JBool(b) == [j |-> "bool", b |-> b]
JNumber(n) == [j |-> "number", n |-> n]
JArray(items) == [j |-> "array", items |-> items]
JObject(members) == [j |-> "object", members |-> members]

\* json.dumps accepts str, int, bool and None keys and turns them into strings
json_key_ok(k) == k.t \in {"str", "int", "bool", "NoneType"}

json_key(k) ==
    CASE k.t = "str" -> k.s
      [] k.t = "int" -> int_str(k.n)
      [] k.t = "bool" -> IF k.b THEN <<"true">> ELSE <<"false">>
      [] k.t = "NoneType" -> <<"null">>

RECURSIVE json_serializable(_)
\* whether json.dumps(v) returns (it raises TypeError otherwise)
json_serializable(v) ==
    CASE v.t \in {"str", "int", "bool", "NoneType"} -> TRUE
      [] v.t \in {"list", "tuple"} ->
            \A i \in 1..Len(v.items) : json_serializable(v.items[i])
      [] v.t = "dict" ->
            \A i \in 1..Len(v.items) :
                json_key_ok(v.items[i][1]) /\ json_serializable(v.items[i][2])
      [] OTHER -> FALSE

RECURSIVE json_encode(_)
\* the document json.dumps(v) writes, for a serializable v
json_encode(v) ==
    CASE v.t = "str" -> JString(v.s)
      [] v.t = "int" -> JNumber(v.n)
      [] v.t = "bool" -> JBool(v.b)
      [] v.t = "NoneType" -> JNull
      [] v.t \in {"list", "tuple"} ->
            JArray([i \in 1..Len(v.items) |-> json_encode(v.items[i])])
      [] v.t = "dict" ->
            JObject([i \in 1..Len(v.items) |->
                        <<json_key(v.items[i][1]), json_encode(v.items[i][2])>>])

RECURSIVE json_type_error(_)
\* the message of the TypeError json.dumps raises on the first object it
\* cannot serialize
json_type_error(v) ==
    CASE v.t \in {"list", "tuple"} ->
            json_type_error(v.items[CHOOSE i \in 1..Len(v.items) :
                /\ ~json_serializable(v.items[i])
                /\ \A k \in 1..(i - 1) : json_serializable(v.items[k])])
      [] v.t = "dict" ->
            LET i == CHOOSE i \in 1..Len(v.items) :
                        /\ ~(json_key_ok(v.items[i][1]) /\ json_serializable(v.items[i][2]))
                        /\ \A k \in 1..(i - 1) :
                                json_key_ok(v.items[k][1]) /\ json_serializable(v.items[k][2])
            IN  IF json_key_ok(v.items[i][1]) THEN json_type_error(v.items[i][2])
                ELSE <<"keys must be str, int, float, bool or None, not ", v.items[i][1].t>>
      [] OTHER -> <<"Object of type ", v.t, " is not JSON serializable">>

json_dumps(v) ==
    IF json_serializable(v) THEN Returns(JsonText(json_encode(v)))
    ELSE Raises("TypeError", "Exception", json_type_error(v))

RECURSIVE json_decode(_)
\* the value json.loads builds from a document: objects become dicts with
\* str keys, arrays become lists
json_decode(d) ==
    CASE d.j = "string" -> PyStr(d.s)
      [] d.j = "number" -> PyInt(d.n)
      [] d.j = "bool" -> PyBool(d.b)
      [] d.j = "null" -> PyNone
      [] d.j = "array" -> PyList([i \in 1..Len(d.items) |-> json_decode(d.items[i])])
      [] d.j = "object" ->
            PyDict([i \in 1..Len(d.members) |->
                        <<PyStr(d.members[i][1]), json_decode(d.members[i][2])>>])

json_loads(text) ==
    IF text.form = "json" THEN Returns(json_decode(text.doc))
    ELSE Raises("JSONDecodeError", "Exception", <<"Expecting value">>)

(***************************************************************************)
(* SilentAdapterLoader                                                     *)
(***************************************************************************)
\* self.adapter_definitions: (name, module_path, class_name)
adapter_definitions ==
    << <<"memory", "tools.adapters.memory_adapter", "MemoryAdapter">>,
       <<"calendar", "tools.adapters.calendar_adapter", "CalendarAdapter">>,
       <<"gmail", "tools.adapters.gmail_adapter", "GmailAdapter">>,
       <<"search", "tools.adapters.search_adapter", "SearchAdapter">>,
       <<"meet", "tools.adapters.meet_adapter", "MeetAdapter">>,
       <<"image", "tools.adapters.image_adapter", "ImageAdapter">>,
       <<"image_display", "tools.adapters.image_display_adapter", "ImageDisplayAdapter">>,
       <<"file_manager", "tools.adapters.file_adapter", "FileManagerAdapter">>,
       <<"vision", "tools.adapters.vision_adapter", "VisionAdapter">>,
       <<"playwright", "tools.adapters.playwright_adapter", "PlaywrightAdapter">>,
       <<"multimodal_memory", "tools.adapters.multimodal_memory_adapter", "MultimodalMemoryAdapter">>,
       <<"openai_tts", "tools.adapters.openai_tts_adapter", "OpenAITTSAdapter">>,
       <<"groq_speech", "tools.adapters.groq_speech_adapter", "GroqSpeechAdapter">> >>

DeclaredNames == {adapter_definitions[i][1] : i \in 1..Len(adapter_definitions)}

\* An adapter instance: its class, the call shapes it exposes and its
\* description attribute (NoValue when it has none).
Methods == {"execute", "process"}
Instance(cls, methods, description) ==
    [cls |-> cls, methods |-> methods, description |-> description]

hasattr(obj, attr) == attr \in obj.methods

\* (mutant) a lookup that ignores the attribute
getattr_description_ignored(obj, default) == default

\* getattr(obj, 'description', default)
getattr_description(obj, default) ==
    IF obj.description = NoValue THEN default ELSE obj.description

\* A dict keyed by adapter name (loaded_adapters, adapters): the sequence of
\* its items in insertion order.
dict_keys(d) == [i \in 1..Len(d) |-> d[i].name]
dict_has(d, name) == \E i \in 1..Len(d) : d[i].name = name
dict_item(d, name) == d[CHOOSE i \in 1..Len(d) : d[i].name = name].instance

\* (mutant) d[name] = instance with a new key put first
dict_setitem_front(d, name, instance) ==
    <<[name |-> name, instance |-> instance]>> \o SelectSeq(d, LAMBDA item : item.name # name)

\* d[name] = instance: a new key goes last, an existing key keeps its place
dict_setitem(d, name, instance) ==
    IF dict_has(d, name)
    THEN [i \in 1..Len(d) |->
            IF d[i].name = name THEN [name |-> name, instance |-> instance] ELSE d[i]]
    ELSE Append(d, [name |-> name, instance |-> instance])

\* `except ImportError` around __import__
except_ImportError(e) == e.exc = "ImportError"

\* (mutant) a handler that takes ValueError only
except_ValueError(e) == e.exc = "ValueError"

\* `except Exception`: every class derived from Exception, ImportError included
except_Exception(e) == e.base = "Exception"

\* (mutant) the same two methods asked of every adapter
required_methods_of_any(name) == <<"process", "execute">>

\* the methods the loader asks of an instance, in the order it tests them
required_methods(name) ==
    IF name = "file_manager" THEN <<"execute">> ELSE <<"process", "execute">>

\* [method for method in required_methods if hasattr(adapter_instance, method)]
available_methods(name, adapter_instance) ==
    SelectSeq(required_methods(name), LAMBDA m : hasattr(adapter_instance, m))

\* What the environment can answer to  __import__(module_path, fromlist=[class_name]):
\* a module that defines the class, a module that does not, or an exception.
ImportOutcomes ==
    { Returns("with_class"), Returns("without_class"),
      Raises("ImportError", "Exception", <<"No module named">>),
      Raises("SyntaxError", "Exception", <<"invalid syntax">>),
      Raises("SystemExit", "BaseException", <<"1">>) }

\* The description attribute a constructed instance has.  The classes of
\* tools/adapters set it as their source says (GmailAdapter appends the mode
\* it found credentials for; VisionAdapter sets none); for the classes whose
\* module is not part of the sources it is a string or absent.
DescriptionOutcomes(class_name) ==
    CASE class_name = "GmailAdapter" ->
            { PyStr(<<"Ava Bot Gmail - Envio de emails con OAuth y SMTP">>),
              PyStr(<<"Ava Bot Gmail - Envio de emails con OAuth y SMTP", " (SMTP Mode)">>) }
      [] class_name = "ImageAdapter" ->
            { PyStr(<<"Ava Bot Image Generator - Together API FLUX.1 - Direct Send">>) }
      [] class_name = "OpenAITTSAdapter" ->
            { PyStr(<<"OpenAI TTS - Sintesis de voz avanzada">>) }
      [] class_name = "GroqSpeechAdapter" ->
            { PyStr(<<"Groq Speech to Text Adapter - Whisper Large v3">>) }
      [] class_name = "VisionAdapter" -> { NoValue }
      [] OTHER -> { NoValue, PyStr(<<"A tool of Ava Bot">>) }

\* What adapter_class() can answer: an instance exposing any of the call
\* shapes, or an exception.
ConstructorOutcomes(class_name) ==
    { Returns(Instance(class_name, ms, d)) :
            ms \in SUBSET Methods, d \in DescriptionOutcomes(class_name) }
        \cup { Raises("ValueError", "Exception", <<"API key is required">>),
               Raises("KeyboardInterrupt", "BaseException", <<>>) }

(***************************************************************************)
(* State                                                                   *)
(***************************************************************************)
VARIABLES
    pc,               \* where start_grpc_server is
    idx,              \* position of the loader's for loop in adapter_definitions
    module,           \* the module the current iteration imported
    loaded_adapters,  \* SilentAdapterLoader.loaded_adapters
    adapters,         \* CleanMCPServer.adapters
    initialized,      \* CleanMCPServer.initialized
    sys_stdout,       \* sys.stdout: "original" or "null_stream"
    sys_stderr,       \* sys.stderr
    attempted,        \* history: the names whose loading was started, in order
    succeeded,        \* history: the names whose constructor returned an
                      \* instance exposing a call shape required of it
    raised,           \* the exception that left load_all_adapters, if any
    last_log,         \* the last message safe_log wrote to stderr
    request_count,    \* AvaBotServicer.request_count
    request,          \* the last request: its rpc, and ExecuteTool's fields
    response,         \* what the handler of the last request returned
    status_code,      \* context.set_code of the last request
    details,          \* context.set_details of the last request
    invoked,          \* the provider calls the last request made
    outcome,          \* what the provider call of the last request answered
    reported,         \* history: the request_count the last Health response
                      \* carried, as a sequence of at most one number
    workers,          \* the pool: for each worker thread, the handler it
                      \* runs, where it is in it, and the value it read
    started,          \* history: the ListTools and ExecuteTool requests begun
    catalogs,         \* history: what the calls of get_available_tools
                      \* returned, in the order they returned
    in_flight,        \* for each worker thread, the ExecuteTool request it
                      \* serves and the provider call it is inside of
    gmail_module,     \* gmail_adapter: OAUTH_HELPER_AVAILABLE, GMAIL_SENDER_AVAILABLE
    gmail_pc,         \* "unimported", "new" once the module is imported,
                      \* "ready" once GmailAdapter() has returned
    has_credentials,  \* GmailAdapter.has_credentials
    gmail_sender,     \* GmailAdapter.gmail_sender: "None" or "GmailSender"
    smtp_config,      \* GmailAdapter.smtp_config: "None" or "config"
    connection_tested,\* GmailAdapter._connection_tested
    gmail_threads,    \* for each thread, where it is in GmailAdapter.execute
    executes,         \* history: the execute calls begun
    tests_run,        \* history: the runs of _test_connection
    handled,          \* history: the actions execute has handled
    last_send,        \* history: what the last action handled did and returned
    tts_pc,           \* where _openai_text_to_speech is
    tts_params,       \* its params: whether text, play_audio, return_audio are set
    speech_file_path, \* the temporary file of the call in progress, or NoPath
    files,            \* the temporary audio files that exist
    created,          \* history: the temporary files created, in order
    cleaned,          \* history: the files _cleanup_file was called for
    tts_result,       \* what the last call returned
    grpc_file,        \* ava_bot_pb2_grpc.py: whether it exists, and its content
    fix_returned      \* history: what the calls of fix_protobuf_imports returned

loader_vars == <<idx, module, loaded_adapters, sys_stdout, sys_stderr, attempted, succeeded, raised, last_log>>
server_vars == <<adapters, initialized>>
rpc_vars == <<request_count, request, response, status_code, details, invoked, outcome, reported>>
pool_vars == <<workers, started, catalogs>>
gmail_vars == <<gmail_module, gmail_pc, has_credentials, gmail_sender, smtp_config,
                connection_tested, gmail_threads, executes, tests_run, handled, last_send>>
tts_vars == <<tts_pc, tts_params, speech_file_path, files, created, cleaned, tts_result>>
fix_vars == <<grpc_file, fix_returned>>
component_vars == <<in_flight, gmail_vars, tts_vars, fix_vars>>
\* the server, its servicer and its pool
service_vars == <<pc, loader_vars, server_vars, rpc_vars, pool_vars, in_flight>>
vars == <<pc, loader_vars, server_vars, rpc_vars, pool_vars, component_vars>>

\* the worker threads, and a thread that runs no handler
Workers == 1..MaxWorkers
Idle == [pc |-> "idle", rpc |-> "none", tmp |-> 0]

\* safe_log(message): the message, by its fixed text and the adapter it names
Log(text, name) == [text |-> text, name |-> name]

\* The call shapes the specification requires of a declared adapter.
RequiredShapes(name) == IF name = "file_manager" THEN {"execute"} ELSE {"execute", "process"}

\* no thread of the pool is serving a request, and the adapters' own
\* objects are as before the requests
\* a thread that is not inside GmailAdapter.execute
Outside == [pc |-> "outside", arguments |-> NoValue]

\* gmail_adapter before it is imported
InitGmail ==
    /\ gmail_module = NoValue
    /\ gmail_pc = "unimported"
    /\ has_credentials = FALSE
    /\ gmail_sender = "None"
    /\ smtp_config = "None"
    /\ connection_tested = FALSE
    /\ gmail_threads = [t \in Workers |-> Outside]
    /\ executes = 0
    /\ tests_run = 0
    /\ handled = 0
    /\ last_send = NoValue

\* speech_file_path outside a call (the files are numbered from 1)
NoPath == 0

\* a file, by whether os.path.exists finds it and by what read() gives: the
\* content is a str, a sequence of pieces of text
File(content) == [exists |-> TRUE, content |-> content]
MissingFile == [exists |-> FALSE, content |-> <<>>]

\* no call of OpenAITTSAdapter._openai_text_to_speech made yet
InitTTS ==
    /\ tts_pc = "outside"
    /\ tts_params = NoValue
    /\ speech_file_path = NoPath
    /\ files = {}
    /\ created = <<>>
    /\ cleaned = {}
    /\ tts_result = NoValue

InitComponents ==
    /\ in_flight = [t \in Workers |-> NoValue]
    /\ InitGmail
    /\ InitTTS
    /\ grpc_file = MissingFile
    /\ fix_returned = <<>>

Init ==
    /\ pc = "boot"
    /\ idx = 0
    /\ module = "none"
    /\ loaded_adapters = <<>>
    /\ adapters = <<>>
    /\ initialized = FALSE
    /\ sys_stdout = "original"
    /\ sys_stderr = "original"
    /\ attempted = <<>>
    /\ succeeded = {}
    /\ raised = NoValue
    /\ last_log = Log("", "")
    /\ request_count = 0
    /\ request = NoValue
    /\ response = NoValue
    /\ status_code = "OK"
    /\ details = <<>>
    /\ invoked = <<>>
    /\ outcome = NoValue
    /\ reported = <<>>
    /\ workers = [t \in Workers |-> Idle]
    /\ started = 0
    /\ catalogs = <<>>
    /\ InitComponents

\* start_grpc_server up to the loader's for loop: CleanMCPServer(),
\* initialize(), load_all_adapters saving the streams
StartLoading ==
    /\ pc = "boot"
    /\ pc' = "for"
    /\ idx' = 1
    /\ last_log' = Log("Iniciando carga silenciosa de adapters...", "")
    /\ UNCHANGED <<module, loaded_adapters, sys_stdout, sys_stderr, attempted, succeeded, raised>>
    /\ UNCHANGED <<server_vars, rpc_vars, pool_vars, component_vars>>

\* top of one iteration: safe_log, sys.stdout = null_stream
BeginImport ==
    /\ pc = "for"
    /\ idx <= Len(adapter_definitions)
    /\ pc' = "import"
    /\ sys_stdout' = "null_stream"
    /\ attempted' = Append(attempted, adapter_definitions[idx][1])
    /\ last_log' = Log("Cargando", adapter_definitions[idx][1])
    /\ UNCHANGED <<idx, module, loaded_adapters, sys_stderr, succeeded, raised>>
    /\ UNCHANGED <<server_vars, rpc_vars, pool_vars, component_vars>>

\* Where an exception goes that the inner handlers of the iteration did not
\* take: the outer `except Exception` logs it and the loop goes on; anything
\* else runs the outer finally and leaves load_all_adapters, initialize and
\* start_grpc_server.
iteration_raises(e) ==
    IF except_Exception(e)
    THEN /\ pc' = "for"
         /\ idx' = idx + 1
         /\ raised' = raised
         /\ last_log' = Log("Error cargando", adapter_definitions[idx][1])
    ELSE /\ pc' = "crashed"
         /\ idx' = idx
         /\ raised' = e
         /\ last_log' = last_log

\* (mutant) a declaration that failed is taken up again
retry_declaration(i) == i

\* `continue` after a failure: the for loop takes the next declaration
after_continue(i) == i + 1

\* (mutant) sys.stdout put back only after a call that returned
restored_on_return_only(called) == IF called.ok THEN "original" ELSE "null_stream"

\* finally: sys.stdout = original_stdout, whatever the call did
finally_stdout(called) == "original"

\* __import__ with its except ImportError / finally
ImportModule(imported) ==
    /\ pc = "import"
    /\ sys_stdout' = finally_stdout(imported)
    /\ IF imported.ok
       THEN /\ module' = imported.value
            /\ pc' = "imported"
            /\ UNCHANGED <<idx, raised, last_log>>
       ELSE /\ module' = "none"
            /\ IF except_ImportError(imported)
               THEN /\ pc' = "for"
                    /\ idx' = after_continue(idx)
                    /\ last_log' = Log("No se pudo importar", adapter_definitions[idx][2])
                    /\ UNCHANGED raised
               ELSE iteration_raises(imported)
    /\ UNCHANGED <<loaded_adapters, sys_stderr, attempted, succeeded>>
    /\ UNCHANGED <<server_vars, rpc_vars, pool_vars, component_vars>>

\* hasattr(module, class_name), getattr, sys.stdout = null_stream (module is
\* not read again before the next import assigns it)
BeginConstruct ==
    /\ pc = "imported"
    /\ IF module = "with_class"
       THEN /\ pc' = "construct"
            /\ sys_stdout' = "null_stream"
            /\ UNCHANGED <<idx, last_log>>
       ELSE /\ pc' = "for"
            /\ idx' = after_continue(idx)
            /\ last_log' = Log("Clase no encontrada", adapter_definitions[idx][3])
            /\ UNCHANGED sys_stdout
    /\ module' = "none"
    /\ UNCHANGED <<loaded_adapters, sys_stderr, attempted, succeeded, raised>>
    /\ UNCHANGED <<server_vars, rpc_vars, pool_vars, component_vars>>

\* adapter_class() with its except Exception / finally, then the check of
\* the required methods and the insertion into loaded_adapters
Construct ==
    /\ pc = "construct"
    /\ \E constructed \in ConstructorOutcomes(adapter_definitions[idx][3]) :
       LET name == adapter_definitions[idx][1] IN
       /\ constructed.ok /\ constructed.value.methods \cap RequiredShapes(name) # {}
            => Cardinality(succeeded) < MaxLoaded
       /\ sys_stdout' = finally_stdout(constructed)
       /\ IF constructed.ok
          THEN /\ IF Len(available_methods(name, constructed.value)) > 0
                  THEN /\ loaded_adapters' =
                            dict_setitem(loaded_adapters, name, constructed.value)
                       /\ last_log' = Log("cargado correctamente", name)
                  ELSE /\ loaded_adapters' = loaded_adapters
                       /\ last_log' = Log("no tiene metodos requeridos", name)
               /\ succeeded' =
                    IF constructed.value.methods \cap RequiredShapes(name) # {}
                    THEN succeeded \cup {name} ELSE succeeded
               /\ pc' = "for"
               /\ idx' = idx + 1
               /\ UNCHANGED raised
          ELSE /\ IF except_Exception(constructed)
                  THEN /\ pc' = "for"
                       /\ idx' = after_continue(idx)
                       /\ last_log' = Log("Error inicializando", name)
                       /\ UNCHANGED raised
                  ELSE iteration_raises(constructed)
               /\ UNCHANGED <<loaded_adapters, succeeded>>
    /\ UNCHANGED <<module, sys_stderr, attempted>>
    /\ UNCHANGED <<server_vars, rpc_vars, pool_vars, component_vars>>

\* the loop is over: the outer finally restores the streams and
\* load_all_adapters returns; initialize keeps the mapping; start_grpc_server
\* registers the servicer and starts the server
FinishLoading ==
    /\ pc = "for"
    /\ idx > Len(adapter_definitions)
    /\ sys_stdout' = "original"
    /\ sys_stderr' = "original"
    /\ adapters' = loaded_adapters
    /\ initialized' = TRUE
    /\ pc' = "serving"
    /\ last_log' = Log("Iniciando servidor gRPC", "")
    /\ UNCHANGED <<idx, module, loaded_adapters, attempted, succeeded, raised>>
    /\ UNCHANGED <<rpc_vars, pool_vars, component_vars>>

(***************************************************************************)
(* CleanMCPServer.get_available_tools                                      *)
(***************************************************************************)
\* input_schema = {"type": "object", "properties": {...}, "required": [...]}.
\* properties is given by its fields in order, each with the "type" of its
\* entry; the enum, default, description and nested items of an entry are
\* left out of the model.
input_schema(properties, required) ==
    PyDict(<< <<PyStr(<<"type">>), PyStr(<<"object">>)>>,
              <<PyStr(<<"properties">>),
                PyDict([i \in 1..Len(properties) |->
                    <<PyStr(<<properties[i][1]>>),
                      PyDict(<< <<PyStr(<<"type">>), PyStr(<<properties[i][2]>>)>> >>)>>])>>,
              <<PyStr(<<"required">>),
                PyList([i \in 1..Len(required) |-> PyStr(<<required[i]>>)])>> >>)

\* (mutant) a schema that requires a field it does not describe
schema_requiring_unknown_field(name) ==
    input_schema(<< <<"query", "string">> >>, << "query", "action" >>)

\* the schema the if/elif chain on name leaves in input_schema: the one of
\* the name's branch, or the basic schema the loop body starts from
schema_for(name) ==
    IF name = "vision"
    THEN input_schema(
            << <<"action", "string">>, <<"image_path", "string">>, <<"user_question",
               "string">>, <<"detail_level", "string">> >>,
            << "action", "image_path" >>)
    ELSE IF name = "playwright"
    THEN input_schema(
            << <<"action", "string">>, <<"url", "string">>, <<"selector", "string">>,
               <<"search_query", "string">>, <<"max_results", "integer">>, <<"text",
               "string">>, <<"javascript", "string">>, <<"screenshot_options",
               "object">>, <<"viewport", "object">>, <<"device", "string">>,
               <<"wait_options", "object">>, <<"scroll_options", "object">>,
               <<"price_selectors", "array">>, <<"max_items", "integer">> >>,
            << "action", "url" >>)
    ELSE IF name = "file_manager"
    THEN input_schema(
            << <<"action", "string">>, <<"directory", "string">>, <<"filename",
               "string">>, <<"pattern", "string">>, <<"limit", "integer">> >>,
            << "action" >>)
    ELSE IF name = "calendar"
    THEN input_schema(
            << <<"summary", "string">>, <<"start_time", "string">>, <<"duration_hours",
               "number">>, <<"attendees", "string">>, <<"description", "string">> >>,
            << "summary", "start_time" >>)
    ELSE IF name = "search"
    THEN input_schema(
            << <<"query", "string">>, <<"num_results", "integer">> >>,
            << "query" >>)
    ELSE IF name = "gmail"
    THEN input_schema(
            << <<"to", "string">>, <<"subject", "string">>, <<"body", "string">>,
               <<"send_latest_image", "boolean">>, <<"attachment_data", "object">> >>,
            << "to", "subject", "body" >>)
    ELSE IF name = "meet"
    THEN input_schema(
            << <<"summary", "string">>, <<"start_time", "string">>, <<"duration_hours",
               "number">>, <<"description", "string">>, <<"attendees", "string">> >>,
            << "summary" >>)
    ELSE IF name = "image"
    THEN input_schema(
            << <<"prompt", "string">>, <<"style", "string">> >>,
            << "prompt" >>)
    ELSE IF name = "memory"
    THEN input_schema(
            << <<"user_id", "string">>, <<"action", "string">>, <<"query", "string">>,
               <<"content", "string">> >>,
            << "user_id", "action" >>)
    ELSE IF name = "multimodal_memory"
    THEN input_schema(
            << <<"action", "string">>, <<"user_id", "string">>, <<"content",
               "string">>, <<"image_path", "string">>, <<"description", "string">>,
               <<"query", "string">>, <<"modalities", "array">>, <<"limit",
               "integer">>, <<"session_id", "string">>, <<"days", "integer">>,
               <<"text_query", "string">>, <<"memory_id_1", "integer">>,
               <<"memory_id_2", "integer">>, <<"memory_type_1", "string">>,
               <<"memory_type_2", "string">>, <<"similarity_score", "number">>,
               <<"link_type", "string">> >>,
            << "action", "user_id" >>)
    ELSE IF name = "openai_tts"
    THEN input_schema(
            << <<"action", "string">>, <<"text", "string">>, <<"voice", "string">>,
               <<"model", "string">>, <<"speed", "number">>, <<"preset_accent",
               "string">>, <<"instructions", "string">>, <<"return_audio", "boolean">>,
               <<"play_audio", "boolean">> >>,
            << "action", "text" >>)
    ELSE IF name = "groq_speech"
    THEN input_schema(
            << <<"action", "string">>, <<"audio_data", "string">>, <<"audio_url",
               "string">>, <<"text", "string">>, <<"language", "string">>, <<"engine",
               "string">>, <<"file_path", "string">>, <<"model", "string">>,
               <<"prompt", "string">>, <<"temperature", "number">>, <<"return_audio",
               "boolean">> >>,
            << "action" >>)
    ELSE input_schema(<<>>, <<>>)

\* f'Ava Bot {name} tool'
default_description(name) == PyStr(<<"Ava Bot ", name, " tool">>)

\* {"name": name, "description": description, "inputSchema": input_schema}
tool_descriptor(name, adapter) ==
    [name |-> name,
     description |-> getattr_description(adapter, default_description(name)),
     inputSchema |-> schema_for(name)]

\* (mutant) a catalog that is handed out once: later calls find it empty
get_available_tools_once(mcp_adapters) ==
    IF catalogs = <<>>
    THEN [i \in 1..Len(mcp_adapters) |->
            tool_descriptor(mcp_adapters[i].name, mcp_adapters[i].instance)]
    ELSE <<>>

\* (mutant) the catalog in the reverse of the mapping's order
get_available_tools_reversed(mcp_adapters) ==
    [i \in 1..Len(mcp_adapters) |->
        tool_descriptor(mcp_adapters[Len(mcp_adapters) + 1 - i].name,
                        mcp_adapters[Len(mcp_adapters) + 1 - i].instance)]

\* (mutant) the catalog without the adapters that have no branch of their own
get_available_tools_dedicated(mcp_adapters) ==
    LET kept == SelectSeq(mcp_adapters,
                    LAMBDA item : schema_for(item.name) # input_schema(<<>>, <<>>))
    IN  [i \in 1..Len(kept) |-> tool_descriptor(kept[i].name, kept[i].instance)]

\* for name, adapter in self.adapters.items(): tools.append({...})
get_available_tools(mcp_adapters) ==
    [i \in 1..Len(mcp_adapters) |->
        tool_descriptor(mcp_adapters[i].name, mcp_adapters[i].instance)]

(***************************************************************************)
(* AvaBotServicer                                                          *)
(***************************************************************************)
\* ava_bot_pb2.ToolResponse(...): a message with the five fields of the proto
ToolResponse(success, text, raw_result, tool_name, timestamp) ==
    [success |-> success, text |-> text, raw_result |-> raw_result,
     tool_name |-> tool_name, timestamp |-> timestamp]

\* ava_bot_pb2.ToolResponse(): every field at its proto3 default
DefaultToolResponse == ToolResponse(FALSE, <<>>, RawText(<<>>), "", <<>>)

\* datetime.now().isoformat(): some non-empty text
now_isoformat == <<"2025-01-01T00:00:00">>

\* (mutant) process tested before execute
call_shape_process_first(adapter) ==
    IF hasattr(adapter, "process") THEN "process"
    ELSE IF hasattr(adapter, "execute") THEN "execute"
    ELSE "none"

\* the call shape ExecuteTool picks: execute first, then process
call_shape(adapter) ==
    IF hasattr(adapter, "execute") THEN "execute"
    ELSE IF hasattr(adapter, "process") THEN "process"
    ELSE "none"

\* raw_result.get("content", [{}])[0].get("text", "") if "content" in raw_result
\* else str(raw_result), and str(raw_result) for what is no dict
main_text(raw_result) ==
    IF isinstance_dict(raw_result)
    THEN IF dict_contains(raw_result, PyStr(<<"content">>))
         THEN LET first == subscript0(dict_get(raw_result, PyStr(<<"content">>),
                                               PyList(<<PyDict(<<>>)>>)))
              IN  IF first.ok
                  THEN method_get(first.value, PyStr(<<"text">>), PyStr(<<>>))
                  ELSE first
         ELSE Returns(PyStr(str(raw_result)))
    ELSE Returns(PyStr(str(raw_result)))

\* (mutant) a flag copied from the result's own success entry
success_flag_of_result(raw_result) ==
    IF isinstance_dict(raw_result) /\ dict_contains(raw_result, PyStr(<<"success">>))
    THEN dict_get(raw_result, PyStr(<<"success">>), PyBool(TRUE)) = PyBool(TRUE)
    ELSE TRUE

\* success=True: the flag of the message built from a result is a literal
success_flag(raw_result) == TRUE

\* ToolResponse(success=True, text=main_text, raw_result=json.dumps(raw_result), ...):
\* json.dumps is evaluated before the message is built, and the message
\* constructor takes only a str for text
success_response(tool_name, raw_result) ==
    LET text == main_text(raw_result)
        dumped == json_dumps(raw_result)
    IN  IF ~text.ok THEN text
        ELSE IF ~dumped.ok THEN dumped
        ELSE IF text.value.t # "str"
             THEN Raises("TypeError", "Exception", <<"bad argument type for built-in operation">>)
        ELSE Returns(ToolResponse(success_flag(raw_result), text.value.s, dumped.value,
                                  tool_name, now_isoformat))

\* What one ExecuteTool call does besides counting the request: the message
\* it returns (returned = FALSE when an exception leaves the handler
\* instead), the status code and details it set on the context, and the
\* provider calls it made.
Reply(returned, message, code, text, calls, exception) ==
    [returned |-> returned, message |-> message, code |-> code, details |-> text,
     invoked |-> calls, exception |-> exception]

\* (mutant) the lookup failure answered without set_code
not_found_reply_without_code(tool_name) ==
    Reply(TRUE, DefaultToolResponse, "OK", <<"Tool ", tool_name, " not found">>, <<>>, NoValue)

\* tool_name not in self.mcp_server.adapters: NOT_FOUND and an empty message
not_found_reply(tool_name) ==
    Reply(TRUE, DefaultToolResponse, "NOT_FOUND", <<"Tool ", tool_name, " not found">>,
          <<>>, NoValue)

\* the adapter has neither execute nor process: INTERNAL and an empty message
no_method_reply ==
    Reply(TRUE, DefaultToolResponse, "INTERNAL", <<"Adapter has no execute/process method">>,
          <<>>, NoValue)

\* except Exception as e: INTERNAL, details str(e), and an empty message
internal_error_reply(e, calls) ==
    Reply(TRUE, DefaultToolResponse, "INTERNAL", e.msg, calls, NoValue)

\* the try block of ExecuteTool once the adapter's call has answered
after_call(tool_name, shape, answered) ==
    LET calls == <<[tool |-> tool_name, method |-> shape]>>
        built == IF answered.ok THEN success_response(tool_name, answered.value)
                 ELSE answered
    IN  IF built.ok
        THEN Reply(TRUE, built.value, "OK", <<>>, calls, NoValue)
        ELSE IF except_Exception(built)
        THEN internal_error_reply(built, calls)
        ELSE Reply(FALSE, NoValue, "OK", <<>>, calls, built)

\* AvaBotServicer.ExecuteTool after request_count += 1.  json.loads stands
\* before the lookup and outside the try: its exception leaves the handler.
execute_tool(mcp_adapters, tool_name, parameters, answered) ==
    LET args == json_loads(parameters) IN
    IF ~args.ok
    THEN Reply(FALSE, NoValue, "OK", <<>>, <<>>, args)
    ELSE IF ~dict_has(mcp_adapters, tool_name)
    THEN not_found_reply(tool_name)
    ELSE LET shape == call_shape(dict_item(mcp_adapters, tool_name)) IN
         IF shape = "none"
         THEN no_method_reply
         ELSE after_call(tool_name, shape, answered)

\* ava_bot_pb2.HealthResponse(...); uptime_seconds, a reading of the clock,
\* is left out of the model
HealthResponse(status, timestamp, total_tools, count) ==
    [status |-> status, timestamp |-> timestamp, total_tools |-> total_tools,
     request_count |-> count]

\* AvaBotServicer.Health
health(mcp_adapters, count) ==
    HealthResponse("ok", now_isoformat, Len(mcp_adapters), count)

\* ava_bot_pb2.ToolsList: tools and schemas are maps from str to str
ToolsList(tools, schemas, total_count, timestamp) ==
    [tools |-> tools, schemas |-> schemas, total_count |-> total_count,
     timestamp |-> timestamp]

\* AvaBotServicer.ListTools after request_count += 1.  A map<string, string>
\* takes only a str, and there is no try around the loop.
list_tools(mcp_adapters) ==
    LET tools == get_available_tools(mcp_adapters)
        names == {tools[i].name : i \in 1..Len(tools)}
        tool(n) == tools[CHOOSE i \in 1..Len(tools) : tools[i].name = n]
        failing == {i \in 1..Len(tools) :
                        \/ tools[i].description.t # "str"
                        \/ ~json_dumps(tools[i].inputSchema).ok}
    IN  IF failing # {}
        THEN LET i == CHOOSE i \in failing : \A k \in failing : i <= k IN
             IF tools[i].description.t # "str"
             THEN Raises("TypeError", "Exception", <<"bad argument type for built-in operation">>)
             ELSE json_dumps(tools[i].inputSchema)
        ELSE Returns(ToolsList([n \in names |-> tool(n).description.s],
                               [n \in names |-> json_dumps(tool(n).inputSchema).value],
                               Len(tools), now_isoformat))

\* whether ExecuteTool reaches the adapter's execute or process
calls_provider(mcp_adapters, tool_name, parameters) ==
    /\ json_loads(parameters).ok
    /\ dict_has(mcp_adapters, tool_name)
    /\ call_shape(dict_item(mcp_adapters, tool_name)) # "none"

(***************************************************************************)
(* What the providers answer: the values the adapters of tools/adapters    *)
(* return, the variants of their content convention, and values that are   *)
(* no mapping.                                                             *)
(***************************************************************************)
TextItem(s) == PyDict(<< <<PyStr(<<"type">>), PyStr(<<"text">>)>>, <<PyStr(<<"text">>), PyStr(s)>> >>)

\* {"content": [{"type": "text", "text": "hello"}]}  (GmailAdapter.execute)
ResultText == PyDict(<< <<PyStr(<<"content">>), PyList(<<TextItem(<<"hello">>)>>)>> >>)

\* the mapping ImageAdapter.execute returns for a generated image:
\* {"content": [{"type": "text", "text": ...}],
\*  "image_data": {"base64": "AQI=", "bytes": b"\x01\x02", "size": 2}}
ResultImage ==
    PyDict(<< <<PyStr(<<"content">>), PyList(<<TextItem(<<"Imagen generada">>)>>)>>,
              <<PyStr(<<"image_data">>),
                PyDict(<< <<PyStr(<<"base64">>), PyStr(<<"AQI=">>)>>,
                          <<PyStr(<<"bytes">>), PyBytes(<<1, 2>>)>>,
                          <<PyStr(<<"size">>), PyInt(2)>> >>)>> >>)

\* {"success": False, "error": "Accion no reconocida"}  (OpenAITTSAdapter.process)
ResultFailure ==
    PyDict(<< <<PyStr(<<"success">>), PyBool(FALSE)>>,
              <<PyStr(<<"error">>), PyStr(<<"Accion no reconocida">>)>> >>)

\* {"success": False, "error": "image_path es requerido", "image_path": None,
\*  "prompt": None}  (VisionAdapter.process)
ResultVisionFailure ==
    PyDict(<< <<PyStr(<<"success">>), PyBool(FALSE)>>,
              <<PyStr(<<"error">>), PyStr(<<"image_path es requerido">>)>>,
              <<PyStr(<<"image_path">>), PyNone>>,
              <<PyStr(<<"prompt">>), PyNone>> >>)

\* {"content": [{"type": "text", "text": "Campo 'to' requerido"}]}
\* (GmailAdapter.execute)
ResultGmailFailure ==
    PyDict(<< <<PyStr(<<"content">>), PyList(<<TextItem(<<"Campo 'to' requerido">>)>>)>> >>)

\* the results by which a provider tells of its own failure
ProviderFailures == { ResultFailure, ResultVisionFailure, ResultGmailFailure }

\* {"content": []}
ResultEmptyContent == PyDict(<< <<PyStr(<<"content">>), PyList(<<>>)>> >>)

\* {"content": "abc"}
ResultContentStr == PyDict(<< <<PyStr(<<"content">>), PyStr(<<"a", "b", "c">>)>> >>)

\* {"content": None}
ResultContentNone == PyDict(<< <<PyStr(<<"content">>), PyNone>> >>)

\* {"content": [{"type": "image"}]}
ResultNoText ==
    PyDict(<< <<PyStr(<<"content">>),
                PyList(<<PyDict(<< <<PyStr(<<"type">>), PyStr(<<"image">>)>> >>)>>)>> >>)

\* {"content": [{"type": "text", "text": ""}]}
ResultEmptyText == PyDict(<< <<PyStr(<<"content">>), PyList(<<TextItem(<<>>)>>)>> >>)

\* "done"
ResultStr == PyStr(<<"done">>)

\* None
ResultNone == PyNone

ProviderResults ==
    { ResultText, ResultImage, ResultFailure, ResultVisionFailure, ResultGmailFailure,
      ResultEmptyContent, ResultContentStr,
      ResultContentNone, ResultNoText, ResultEmptyText, ResultStr, ResultNone }

\* adapter.execute(args) / adapter.process(args): a result, or an exception
ProviderOutcomes ==
    { Returns(r) : r \in ProviderResults }
        \cup { Raises("RuntimeError", "Exception", <<"boom">>),
               Raises("SystemExit", "BaseException", <<"1">>) }

\* request.parameters: "{}", and a string that is no JSON document: the empty
\* string, which is the proto3 default of the field
ParameterTexts == { JsonText(JObject(<<>>)), RawText(<<>>) }

\* request.tool_name: two declared names and one that is not declared
ToolNames == {"image", "file_manager", "nonexistent-name"}

(***************************************************************************)
(* The RPCs                                                                *)
(***************************************************************************)
\* (mutant) a server that takes requests as soon as the loader runs
server_started_while_loading(p) == p # "boot"

\* server.start() has been called: start_grpc_server calls it after
\* mcp_server.initialize() has returned
server_started(p) == p = "serving"

\* What the handlers leave of a request: the request, the response and what
\* was set on its context.
answer_vars == <<request, response, status_code, details, invoked, outcome>>

\* ExecuteTool from tool_name = request.tool_name to the return (or to the
\* exception that leaves the handler).  The provider answers only if called.
ExecuteToolBody(tool_name, parameters, outcomes) ==
    \E answered \in (IF calls_provider(adapters, tool_name, parameters)
                     THEN outcomes ELSE {NoValue}) :
       LET reply == execute_tool(adapters, tool_name, parameters, answered) IN
       /\ request' = [rpc |-> "ExecuteTool", tool_name |-> tool_name,
                       parameters |-> parameters]
       /\ outcome' = answered
       /\ response' = [returned |-> reply.returned, message |-> reply.message,
                       exception |-> reply.exception]
       /\ status_code' = reply.code
       /\ details' = reply.details
       /\ invoked' = reply.invoked

\* ListTools from tools = self.mcp_server.get_available_tools() to the return
ListToolsBody ==
    LET listed == list_tools(adapters) IN
    /\ request' = [rpc |-> "ListTools"]
    /\ response' = [returned |-> listed.ok,
                    message |-> IF listed.ok THEN listed.value ELSE NoValue,
                    exception |-> IF listed.ok THEN NoValue ELSE listed]
    /\ status_code' = "OK"
    /\ details' = <<>>
    /\ invoked' = <<>>
    /\ outcome' = NoValue
    /\ catalogs' = Append(catalogs, get_available_tools(adapters))

\* Health: it reads the mapping's size and the counter
HealthBody ==
    /\ request' = [rpc |-> "Health"]
    /\ response' = [returned |-> TRUE, message |-> health(adapters, request_count),
                    exception |-> NoValue]
    /\ status_code' = "OK"
    /\ details' = <<>>
    /\ invoked' = <<>>
    /\ outcome' = NoValue
    /\ reported' = <<request_count>>

\* One ExecuteTool request, served alone: request_count += 1 and the rest.
ExecuteTool(tool_name, parameters) ==
    /\ server_started(pc)
    /\ request_count < MaxRequests
    /\ request_count' = request_count + 1
    /\ started' = started + 1
    /\ ExecuteToolBody(tool_name, parameters, ProviderOutcomes)
    /\ UNCHANGED <<pc, loader_vars, server_vars, reported, workers, catalogs, component_vars>>

\* One ListTools request, served alone.
ListTools ==
    /\ server_started(pc)
    /\ request_count < MaxRequests
    /\ request_count' = request_count + 1
    /\ started' = started + 1
    /\ ListToolsBody
    /\ UNCHANGED <<pc, loader_vars, server_vars, reported, workers, component_vars>>

\* (mutant) a Health handler that empties the adapter mapping
Health_clearing ==
    /\ server_started(pc)
    /\ HealthBody
    /\ adapters' = <<>>
    /\ UNCHANGED <<pc, loader_vars, initialized, request_count, pool_vars, component_vars>>

\* One Health request.
Health ==
    /\ server_started(pc)
    /\ HealthBody
    /\ UNCHANGED <<pc, loader_vars, server_vars, request_count, pool_vars, component_vars>>

Next ==
    \/ StartLoading
    \/ BeginImport
    \/ \E imported \in ImportOutcomes : ImportModule(imported)
    \/ BeginConstruct
    \/ Construct
    \/ FinishLoading
    \/ \E tool_name \in ToolNames, parameters \in ParameterTexts :
            ExecuteTool(tool_name, parameters)
    \/ ListTools
    \/ Health

Spec == Init /\ [][Next]_vars

(***************************************************************************)
(* The servicer on its own: AvaBotServicer(mcp_server) takes any server    *)
(* object, so its adapters mapping may hold instances the loader would     *)
(* not have kept (one exposing neither execute nor process).               *)
(***************************************************************************)
\* the mappings of at most MaxLoaded of the requested declared names, in
\* declaration order, to instances exposing any call shapes
RECURSIVE mappings_from(_)
mappings_from(i) ==
    IF i > Len(adapter_definitions) THEN { <<>> }
    ELSE LET name == adapter_definitions[i][1]
             rest == mappings_from(i + 1)
         IN  IF name \in ToolNames
             THEN rest \cup
                  { <<[name |-> name, instance |-> Instance(adapter_definitions[i][3], ms, d)]>> \o m :
                        ms \in SUBSET Methods,
                        d \in DescriptionOutcomes(adapter_definitions[i][3]),
                        m \in { r \in rest : Len(r) < MaxLoaded } }
             ELSE rest

ServicerAdapters == mappings_from(1)

InitServicer ==
    /\ pc = "serving"
    /\ idx = 0
    /\ module = "none"
    /\ adapters \in ServicerAdapters
    /\ loaded_adapters = adapters
    /\ initialized = TRUE
    /\ sys_stdout = "original"
    /\ sys_stderr = "original"
    /\ attempted = <<>>
    /\ succeeded = {}
    /\ raised = NoValue
    /\ last_log = Log("", "")
    /\ request_count = 0
    /\ request = NoValue
    /\ response = NoValue
    /\ status_code = "OK"
    /\ details = <<>>
    /\ invoked = <<>>
    /\ outcome = NoValue
    /\ reported = <<>>
    /\ workers = [t \in Workers |-> Idle]
    /\ started = 0
    /\ catalogs = <<>>
    /\ InitComponents

NextServicer ==
    \/ \E tool_name \in ToolNames, parameters \in ParameterTexts :
            ExecuteTool(tool_name, parameters)
    \/ ListTools
    \/ Health

SpecServicer == InitServicer /\ [][NextServicer]_vars

(***************************************************************************)
(* The worker pool.  grpc.server(futures.ThreadPoolExecutor(max_workers=10))*)
(* runs the handler of each request on a thread of the pool, and the       *)
(* threads share the servicer.  self.request_count += 1 is a read of the   *)
(* attribute, an addition and a write of the attribute, with no lock:      *)
(* another thread can run between the read and the write.                  *)
(***************************************************************************)
\* the servicers the pool is run on: the adapters expose both call shapes
PoolAdapters ==
    { m \in ServicerAdapters : \A i \in 1..Len(m) : m[i].instance.methods = Methods }

\* what the providers answer to the requests given to the pool
PoolOutcomes == { Returns(ResultText), Raises("RuntimeError", "Exception", <<"boom">>) }

InitPool ==
    /\ InitServicer
    /\ adapters \in PoolAdapters

\* the executor hands a request to a free thread: the first of them
first_idle(t) == workers[t] = Idle /\ \A u \in 1..(t - 1) : workers[u] # Idle

\* a free worker thread is given a ListTools or an ExecuteTool request
WorkerTakes(t, rpc) ==
    /\ server_started(pc)
    /\ first_idle(t)
    /\ started < MaxPoolRequests
    /\ started' = started + 1
    /\ workers' = [workers EXCEPT ![t] = [pc |-> "read_count", rpc |-> rpc, tmp |-> 0]]
    /\ UNCHANGED <<pc, loader_vars, server_vars, rpc_vars, catalogs, component_vars>>

\* self.request_count += 1: the read of self.request_count
WorkerReadsCount(t) ==
    /\ workers[t].pc = "read_count"
    /\ workers' = [workers EXCEPT ![t].pc = "write_count", ![t].tmp = request_count]
    /\ UNCHANGED <<pc, loader_vars, server_vars, rpc_vars, started, catalogs, component_vars>>

\* self.request_count += 1: the write of the value read, plus one
WorkerWritesCount(t) ==
    /\ workers[t].pc = "write_count"
    /\ request_count' = workers[t].tmp + 1
    /\ workers' = [workers EXCEPT ![t].pc = "body", ![t].tmp = 0]
    /\ UNCHANGED <<pc, loader_vars, server_vars, answer_vars, reported, started, catalogs, component_vars>>

\* the rest of ListTools, on the worker's thread
WorkerListsTools(t) ==
    /\ workers[t].pc = "body"
    /\ workers[t].rpc = "ListTools"
    /\ ListToolsBody
    /\ workers' = [workers EXCEPT ![t] = Idle]
    /\ UNCHANGED <<pc, loader_vars, server_vars, request_count, reported, started, component_vars>>

\* the rest of ExecuteTool, on the worker's thread
WorkerExecutesTool(t, tool_name, parameters) ==
    /\ workers[t].pc = "body"
    /\ workers[t].rpc = "ExecuteTool"
    /\ ExecuteToolBody(tool_name, parameters, PoolOutcomes)
    /\ workers' = [workers EXCEPT ![t] = Idle]
    /\ UNCHANGED <<pc, loader_vars, server_vars, request_count, reported, started, catalogs, component_vars>>

\* Health, on a free worker thread
WorkerHealth(t) ==
    /\ server_started(pc)
    /\ first_idle(t)
    /\ HealthBody
    /\ UNCHANGED <<pc, loader_vars, server_vars, request_count, pool_vars, component_vars>>

NextPool ==
    \E t \in Workers :
        \/ \E rpc \in {"ListTools", "ExecuteTool"} : WorkerTakes(t, rpc)
        \/ WorkerReadsCount(t)
        \/ WorkerWritesCount(t)
        \/ WorkerListsTools(t)
        \/ \E tool_name \in ToolNames, parameters \in ParameterTexts :
                WorkerExecutesTool(t, tool_name, parameters)
        \/ WorkerHealth(t)

\* the pool serving the adapters of a servicer
SpecPool == InitPool /\ [][NextPool]_vars

(***************************************************************************)
(* The dispatch of ExecuteTool on the pool.  The handler looks the adapter *)
(* up and calls its execute or process on the worker's own thread, with no *)
(* lock around the call; the call returns when the provider returns, and   *)
(* a provider that hangs keeps its thread.                                 *)
(***************************************************************************)
\* the request a worker serves: the last field tells whether the provider
\* call it makes never returns, the one before it the adapter it calls
Call(tool_name, parameters, adapter, hung, before) ==
    [tool_name |-> tool_name, parameters |-> parameters, adapter |-> adapter,
     hung |-> hung, before |-> before]

InitDispatch == InitPool

\* request.parameters of the requests dispatched on the pool: "{}"
DispatchParameters == { JsonText(JObject(<<>>)) }

\* a free worker thread is given an ExecuteTool request
DispatchTakes(t, tool_name, parameters) ==
    /\ server_started(pc)
    /\ first_idle(t)
    /\ started < MaxPoolRequests
    /\ started' = started + 1
    /\ workers' = [workers EXCEPT ![t] = [pc |-> "read_count", rpc |-> "ExecuteTool", tmp |-> 0]]
    /\ in_flight' = [in_flight EXCEPT ![t] = Call(tool_name, parameters, NoValue, FALSE, NoValue)]
    /\ UNCHANGED <<pc, loader_vars, server_vars, rpc_vars, catalogs,
                   gmail_vars, tts_vars, fix_vars>>

\* ExecuteTool on the paths that reach no provider: json.loads raises, the
\* name is not in the mapping, or the adapter has neither call shape
WorkerAnswers(t) ==
    /\ workers[t].pc = "body"
    /\ in_flight[t] # NoValue
    /\ ~calls_provider(adapters, in_flight[t].tool_name, in_flight[t].parameters)
    /\ ExecuteToolBody(in_flight[t].tool_name, in_flight[t].parameters, {})
    /\ workers' = [workers EXCEPT ![t] = Idle]
    /\ in_flight' = [in_flight EXCEPT ![t] = NoValue]
    /\ UNCHANGED <<pc, loader_vars, server_vars, request_count, reported, started, catalogs,
                   gmail_vars, tts_vars, fix_vars>>

\* (mutant) a dispatcher that holds a lock per tool name around the call
WorkerEntersCall_exclusive(t, hangs) ==
    /\ workers[t].pc = "body"
    /\ in_flight[t] # NoValue
    /\ calls_provider(adapters, in_flight[t].tool_name, in_flight[t].parameters)
    /\ \A u \in Workers \ {t} :
            ~(workers[u].pc = "in_call" /\ in_flight[u].tool_name = in_flight[t].tool_name)
    /\ workers' = [workers EXCEPT ![t].pc = "in_call"]
    /\ in_flight' = [in_flight EXCEPT ![t].adapter = dict_item(adapters, in_flight[t].tool_name),
                              ![t].hung = hangs,
                              ![t].before = request]
    /\ UNCHANGED <<pc, loader_vars, server_vars, rpc_vars, started, catalogs,
                   gmail_vars, tts_vars, fix_vars>>

\* adapter = self.mcp_server.adapters[tool_name], and the thread enters
\* adapter.execute(args) or adapter.process(args)
WorkerEntersCall(t, hangs) ==
    /\ workers[t].pc = "body"
    /\ in_flight[t] # NoValue
    /\ calls_provider(adapters, in_flight[t].tool_name, in_flight[t].parameters)
    /\ workers' = [workers EXCEPT ![t].pc = "in_call"]
    /\ in_flight' = [in_flight EXCEPT ![t].adapter = dict_item(adapters, in_flight[t].tool_name),
                              ![t].hung = hangs,
                              ![t].before = request]
    /\ UNCHANGED <<pc, loader_vars, server_vars, rpc_vars, started, catalogs,
                   gmail_vars, tts_vars, fix_vars>>

\* (mutant) a pool whose threads return from the providers in turn: a
\* thread waits for the calls of the threads before it
WorkerLeavesCall_in_turn(t) ==
    /\ workers[t].pc = "in_call"
    /\ ~in_flight[t].hung
    /\ \A u \in Workers \ {t} : workers[u].pc # "in_call"
    /\ ExecuteToolBody(in_flight[t].tool_name, in_flight[t].parameters, PoolOutcomes)
    /\ workers' = [workers EXCEPT ![t] = Idle]
    /\ in_flight' = [in_flight EXCEPT ![t] = NoValue]
    /\ UNCHANGED <<pc, loader_vars, server_vars, request_count, reported, started, catalogs,
                   gmail_vars, tts_vars, fix_vars>>

\* the provider returns or raises, and ExecuteTool goes on to its return
WorkerLeavesCall(t) ==
    /\ workers[t].pc = "in_call"
    /\ ~in_flight[t].hung
    /\ ExecuteToolBody(in_flight[t].tool_name, in_flight[t].parameters, PoolOutcomes)
    /\ workers' = [workers EXCEPT ![t] = Idle]
    /\ in_flight' = [in_flight EXCEPT ![t] = NoValue]
    /\ UNCHANGED <<pc, loader_vars, server_vars, request_count, reported, started, catalogs,
                   gmail_vars, tts_vars, fix_vars>>

NextDispatch ==
    \E t \in Workers :
        \/ \E tool_name \in ToolNames, parameters \in DispatchParameters :
                DispatchTakes(t, tool_name, parameters)
        \/ WorkerReadsCount(t)
        \/ WorkerWritesCount(t)
        \/ WorkerAnswers(t)
        \/ \E hangs \in BOOLEAN : WorkerEntersCall(t, hangs)
        \/ WorkerLeavesCall(t)

SpecDispatch == InitDispatch /\ [][NextDispatch]_vars

\* a step of the handler worker t runs
WorkerStep(t) ==
    \/ WorkerReadsCount(t)
    \/ WorkerWritesCount(t)
    \/ WorkerAnswers(t)
    \/ \E hangs \in BOOLEAN : WorkerEntersCall(t, hangs)
    \/ WorkerLeavesCall(t)

\* a started server whose loader loaded every adapter it declares
InitFairDispatch ==
    /\ InitDispatch
    /\ Len(adapters) = MaxLoaded

\* Every thread of the pool that can take a step is given the processor,
\* and a provider call that is not hung returns.
FairDispatch ==
    /\ InitFairDispatch
    /\ [][NextDispatch]_vars
    /\ \A t \in Workers : WF_vars(WorkerStep(t))

(***************************************************************************)
(* GmailAdapter.  The module imports oauth_helper and GmailSender if they  *)
(* can be found; the constructor tries OAuth, then SMTP; execute runs the  *)
(* connection test on its first call and then handles the action.  The     *)
(* dispatcher calls execute on the one instance from any thread of the     *)
(* pool.                                                                   *)
(***************************************************************************)
\* _init_oauth_gmail: what it leaves of gmail_sender and has_credentials
init_oauth_gmail(mod, sender_constructed) ==
    IF ~(mod.OAUTH_HELPER_AVAILABLE /\ mod.GMAIL_SENDER_AVAILABLE)
    THEN [gmail_sender |-> "None", has_credentials |-> FALSE]
    ELSE IF sender_constructed
    THEN [gmail_sender |-> "GmailSender", has_credentials |-> TRUE]
    ELSE [gmail_sender |-> "None", has_credentials |-> FALSE]

\* (mutant) an SMTP initialisation that is run whatever OAuth gave
init_smtp_skipped_never(credentials) == FALSE

\* if not self.has_credentials: self._init_smtp_gmail()
init_smtp_skipped(credentials) == credentials

\* _init_smtp_gmail: what it leaves of smtp_config and has_credentials
init_smtp_gmail(dotenv_imported, gmail_user, gmail_password) ==
    IF dotenv_imported /\ gmail_user /\ gmail_password
    THEN [smtp_config |-> "config", has_credentials |-> TRUE]
    ELSE [smtp_config |-> "None", has_credentials |-> FALSE]

\* a started server, seen from its GmailAdapter
InitGmailAdapter ==
    /\ InitPool
    /\ Len(adapters) = 0

\* import of gmail_adapter: oauth_helper and GmailSender are found or not
GmailImport(oauth_helper_found, gmail_sender_found) ==
    /\ gmail_pc = "unimported"
    /\ gmail_module' = [OAUTH_HELPER_AVAILABLE |-> oauth_helper_found,
                         GMAIL_SENDER_AVAILABLE |-> gmail_sender_found]
    /\ gmail_pc' = "new"
    /\ UNCHANGED <<service_vars, tts_vars, fix_vars, has_credentials, gmail_sender, smtp_config,
                   connection_tested, gmail_threads, executes, tests_run, handled, last_send>>

\* GmailAdapter(): GmailSender() returns or raises, dotenv is importable or
\* not, GMAIL_USER and GMAIL_APP_PASSWORD are set or not
GmailConstruct(sender_constructed, dotenv_imported, gmail_user, gmail_password) ==
    /\ gmail_pc = "new"
    /\ LET oauth == init_oauth_gmail(gmail_module, sender_constructed)
           smtp == IF init_smtp_skipped(oauth.has_credentials)
                   THEN [smtp_config |-> "None", has_credentials |-> FALSE]
                   ELSE init_smtp_gmail(dotenv_imported, gmail_user, gmail_password)
       IN  /\ gmail_sender' = oauth.gmail_sender
           /\ smtp_config' = smtp.smtp_config
           /\ has_credentials' = (oauth.has_credentials \/ smtp.has_credentials)
    /\ gmail_pc' = "ready"
    /\ UNCHANGED <<service_vars, tts_vars, fix_vars, gmail_module, connection_tested, gmail_threads,
                   executes, tests_run, handled, last_send>>

\* the arguments of execute: the action, whether 'to' is given, and the
\* attachment asked for
GmailArguments ==
    { [action |-> "send", to |-> to, attach |-> a] :
            to \in BOOLEAN, a \in {"none", "send_latest_image", "attachment_data"} }
        \cup { [action |-> a, to |-> FALSE, attach |-> "none"] : a \in {"test", "other"} }

\* what an action did: the text it returned (by its first words), and the
\* OAuth and SMTP sends it made
Sent(text, oauth, smtp) == [text |-> text, oauth |-> oauth, smtp |-> smtp]

\* _send_smtp_email: delivered, or one of its two error texts
send_smtp_email(oauth, smtp_outcome) ==
    CASE smtp_outcome = "delivered" -> Sent("Email enviado (SMTP)", oauth, 1)
      [] smtp_outcome = "SMTPAuthenticationError" -> Sent("Error de autenticacion SMTP", oauth, 1)
      [] OTHER -> Sent("Error SMTP", oauth, 1)

\* _send_smtp_fallback
send_smtp_fallback(config, oauth, smtp_outcome) ==
    IF config # "None"
    THEN send_smtp_email(oauth, smtp_outcome)
    ELSE Sent("Email fallo ... Sin fallback SMTP configurado", oauth, 0)

\* _send_simple_email: gmail_sender.send_email answers a mapping with
\* success, one without, a value that is no mapping, or raises
send_simple_email(sender, config, oauth_outcome, smtp_outcome) ==
    IF sender # "None"
    THEN IF oauth_outcome = "success"
         THEN Sent("Email enviado (OAuth)", 1, 0)
         ELSE send_smtp_fallback(config, 1, smtp_outcome)
    ELSE IF config # "None"
    THEN send_smtp_email(0, smtp_outcome)
    ELSE Sent("No hay metodo de envio configurado", 0, 0)

\* _send_with_latest_image and _send_with_attachments: the file is found or
\* not; with it, the message goes by the Gmail API when gmail_sender has a
\* service, by SMTP when smtp_config is set
send_with_attachments(sender, config, file_found, has_service, delivered) ==
    IF ~file_found THEN Sent("Archivo no encontrado", 0, 0)
    ELSE IF sender # "None" /\ has_service
    THEN IF delivered THEN Sent("Email con adjunto enviado (OAuth)", 1, 0)
         ELSE Sent("Error enviando con adjuntos", 1, 0)
    ELSE IF config # "None"
    THEN IF delivered THEN Sent("Email con adjunto enviado (SMTP)", 0, 1)
         ELSE Sent("Error enviando con adjuntos", 0, 1)
    ELSE Sent("No hay metodo de envio configurado", 0, 0)

OAuthOutcomes == {"success", "failure", "not a dict", "raises"}
SmtpOutcomes == {"delivered", "SMTPAuthenticationError", "raises"}

\* _handle_send_action
handle_send_action(arguments, credentials, sender, config, oauth_outcome, smtp_outcome, file_found, has_service) ==
    IF ~arguments.to THEN Sent("Campo 'to' requerido", 0, 0)
    ELSE IF ~credentials THEN Sent("Solicitud de email procesada", 0, 0)
    ELSE IF arguments.attach # "none"
    THEN send_with_attachments(sender, config, file_found, has_service,
                               smtp_outcome = "delivered")
    ELSE send_simple_email(sender, config, oauth_outcome, smtp_outcome)

\* a thread calls execute(arguments)
GmailExecute(t, arguments) ==
    /\ gmail_pc = "ready"
    /\ gmail_threads[t] = Outside
    /\ executes < MaxExecutes
    /\ executes' = executes + 1
    /\ gmail_threads' = [gmail_threads EXCEPT ![t] = [pc |-> "if_tested", arguments |-> arguments]]
    /\ UNCHANGED <<service_vars, tts_vars, fix_vars, gmail_module, gmail_pc, has_credentials, gmail_sender,
                   smtp_config, connection_tested, tests_run, handled, last_send>>

\* if not self._connection_tested:
GmailReadsTested(t) ==
    /\ gmail_threads[t].pc = "if_tested"
    /\ gmail_threads' = [gmail_threads EXCEPT
                            ![t].pc = IF connection_tested THEN "action" ELSE "test"]
    /\ UNCHANGED <<service_vars, tts_vars, fix_vars, gmail_module, gmail_pc, has_credentials, gmail_sender,
                   smtp_config, connection_tested, executes, tests_run, handled, last_send>>

\* self._test_connection()
GmailTestsConnection(t) ==
    /\ gmail_threads[t].pc = "test"
    /\ tests_run' = tests_run + 1
    /\ gmail_threads' = [gmail_threads EXCEPT ![t].pc = "tested"]
    /\ UNCHANGED <<service_vars, tts_vars, fix_vars, gmail_module, gmail_pc, has_credentials, gmail_sender,
                   smtp_config, connection_tested, executes, handled, last_send>>

\* self._connection_tested = True
GmailMarksTested(t) ==
    /\ gmail_threads[t].pc = "tested"
    /\ connection_tested' = TRUE
    /\ gmail_threads' = [gmail_threads EXCEPT ![t].pc = "action"]
    /\ UNCHANGED <<service_vars, tts_vars, fix_vars, gmail_module, gmail_pc, has_credentials, gmail_sender,
                   smtp_config, executes, tests_run, handled, last_send>>

\* the rest of execute: the action is handled and its result returned
GmailHandles(t, oauth_outcome, smtp_outcome, file_found, has_service) ==
    /\ gmail_threads[t].pc = "action"
    /\ LET arguments == gmail_threads[t].arguments IN
       last_send' =
         [arguments |-> arguments,
          did |-> CASE arguments.action = "send" ->
                          handle_send_action(arguments, has_credentials, gmail_sender,
                                             smtp_config, oauth_outcome, smtp_outcome,
                                             file_found, has_service)
                    [] arguments.action = "test" -> Sent("GMAIL ADAPTER STATUS", 0, 0)
                    [] OTHER -> Sent("Accion no reconocida", 0, 0),
          oauth_outcome |-> oauth_outcome]
    /\ handled' = handled + 1
    /\ gmail_threads' = [gmail_threads EXCEPT ![t] = Outside]
    /\ UNCHANGED <<service_vars, tts_vars, fix_vars, gmail_module, gmail_pc, has_credentials, gmail_sender,
                   smtp_config, connection_tested, executes, tests_run>>

NextGmail ==
    \/ \E oauth_helper_found, gmail_sender_found \in BOOLEAN :
            GmailImport(oauth_helper_found, gmail_sender_found)
    \/ \E sender_constructed, dotenv_imported, gmail_user, gmail_password \in BOOLEAN :
            GmailConstruct(sender_constructed, dotenv_imported, gmail_user, gmail_password)
    \/ \E t \in Workers :
            \/ \E arguments \in GmailArguments : GmailExecute(t, arguments)
            \/ GmailReadsTested(t)
            \/ GmailTestsConnection(t)
            \/ GmailMarksTested(t)
            \/ \E oauth_outcome \in OAuthOutcomes, smtp_outcome \in SmtpOutcomes,
                   file_found, has_service \in BOOLEAN :
                    GmailHandles(t, oauth_outcome, smtp_outcome, file_found, has_service)

SpecGmail == InitGmailAdapter /\ [][NextGmail]_vars

(***************************************************************************)
(* OpenAITTSAdapter._openai_text_to_speech.  It creates a temporary file   *)
(* that is not deleted on close, has the speech written to it, plays it    *)
(* and reads it back if asked, and calls _cleanup_file before returning    *)
(* the success mapping.                                                    *)
(***************************************************************************)
\* the mapping returned: success, and the error text of a failure
SpeechResult(success, error) == [success |-> success, error |-> error]

\* params of the call: whether text is non-empty, play_audio, return_audio
SpeechParams == [text : BOOLEAN, play_audio : BOOLEAN, return_audio : BOOLEAN]

\* what os.unlink does at each of the three attempts of _cleanup_file
UnlinkOutcomes == {"unlinked", "PermissionError", "OSError"}

\* _cleanup_file from the given attempt on: whether the file is removed.
\* PermissionError goes to the next attempt, any other exception and a
\* successful unlink leave the loop.
RECURSIVE cleanup_attempts(_, _)
cleanup_attempts(unlinks, attempt) ==
    IF attempt > 3 THEN FALSE
    ELSE CASE unlinks[attempt] = "unlinked" -> TRUE
           [] unlinks[attempt] = "PermissionError" -> cleanup_attempts(unlinks, attempt + 1)
           [] OTHER -> FALSE

\* _cleanup_file(file_path): the files that exist after it
cleanup_file(existing, file_path, unlinks) ==
    IF file_path \notin existing THEN existing
    ELSE IF cleanup_attempts(unlinks, 1) THEN existing \ {file_path}
    ELSE existing

\* a started server, seen from its OpenAITTSAdapter
InitSpeech ==
    /\ InitPool
    /\ Len(adapters) = 0

\* process({"action": "text_to_speech", ...}): with no text the call returns
\* at once, before any file is created
SpeechCall(params) ==
    /\ tts_pc = "outside"
    /\ Len(created) < MaxSpeeches
    /\ tts_params' = params
    /\ IF params.text
       THEN /\ tts_pc' = "create"
            /\ UNCHANGED tts_result
       ELSE /\ tts_pc' = "outside"
            /\ tts_result' = SpeechResult(FALSE, "Texto requerido")
    /\ UNCHANGED <<service_vars, gmail_vars, fix_vars, speech_file_path, files, created, cleaned>>

\* tempfile.NamedTemporaryFile(delete=False, ...), close, Path(temp_file.name)
SpeechCreatesFile ==
    /\ tts_pc = "create"
    /\ LET path == Len(created) + 1 IN
       /\ speech_file_path' = path
       /\ files' = files \cup {path}
       /\ created' = Append(created, path)
    /\ tts_pc' = "generate"
    /\ UNCHANGED <<service_vars, gmail_vars, fix_vars, tts_params, cleaned, tts_result>>

\* the speech is streamed to the file, or written to it by the standard
\* call after an AttributeError, or the generation raises: the except
\* branch returns the failure mapping
SpeechGenerates(generated) ==
    /\ tts_pc = "generate"
    /\ IF generated \in {"streamed", "standard"}
       THEN /\ tts_pc' = "play"
            /\ UNCHANGED <<speech_file_path, tts_result>>
       ELSE /\ tts_pc' = "outside"
            /\ tts_result' = SpeechResult(FALSE, "model_error")
            /\ speech_file_path' = NoPath
    /\ UNCHANGED <<service_vars, gmail_vars, fix_vars, tts_params, files, created, cleaned>>

\* if play_audio: the file is played; an error of the player is logged
SpeechPlays ==
    /\ tts_pc = "play"
    /\ tts_pc' = "read"
    /\ UNCHANGED <<service_vars, gmail_vars, fix_vars, tts_params, speech_file_path, files,
                   created, cleaned, tts_result>>

\* if return_audio: the file is read back; an error is logged
SpeechReadsFile ==
    /\ tts_pc = "read"
    /\ tts_pc' = "cleanup"
    /\ UNCHANGED <<service_vars, gmail_vars, fix_vars, tts_params, speech_file_path, files,
                   created, cleaned, tts_result>>

\* self._cleanup_file(speech_file_path) and the return of the success mapping
SpeechCleansUp(unlinks) ==
    /\ tts_pc = "cleanup"
    /\ cleaned' = cleaned \cup {speech_file_path}
    /\ files' = cleanup_file(files, speech_file_path, unlinks)
    /\ tts_result' = SpeechResult(TRUE, "")
    /\ speech_file_path' = NoPath
    /\ tts_pc' = "outside"
    /\ UNCHANGED <<service_vars, gmail_vars, fix_vars, tts_params, created>>

NextSpeech ==
    \/ \E params \in SpeechParams : SpeechCall(params)
    \/ SpeechCreatesFile
    \/ \E generated \in {"streamed", "standard", "model_error"} :
            SpeechGenerates(generated)
    \/ SpeechPlays
    \/ SpeechReadsFile
    \/ \E unlinks \in [1..3 -> UnlinkOutcomes] : SpeechCleansUp(unlinks)

SpecSpeech == InitSpeech /\ [][NextSpeech]_vars

(***************************************************************************)
(* fix_protobuf_imports, in fix_imports.py and in run_server.py: it reads  *)
(* ava_bot_pb2_grpc.py, and if the plain import is in it and the guarded   *)
(* import is not, replaces every occurrence of the first by the second     *)
(* and writes the file.                                                    *)
(***************************************************************************)
\* old_import = "import ava_bot_pb2 as ava__bot__pb2"
old_import == <<"import ava_bot_pb2 as ava__bot__pb2">>

\* new_import: the three lines around the two imports, and the imports
\* themselves, which end in the text of old_import
new_import ==
    <<"try:\n    ">> \o old_import \o <<"\nexcept ImportError:\n    from . ">> \o old_import

\* the pieces a generated file is made of: those of new_import, and a line
\* that holds none of them
Pieces == { new_import[i] : i \in 1..Len(new_import) } \cup {"import grpc\n"}

RECURSIVE texts_of(_)
texts_of(n) ==
    IF n = 0 THEN { <<>> }
    ELSE LET shorter == texts_of(n - 1) IN
         shorter \cup { Append(text, piece) : text \in { x \in shorter : Len(x) = n - 1 },
                                             piece \in Pieces }

\* the contents of ava_bot_pb2_grpc.py
Contents == texts_of(MaxPieces)

\* piece in content
str_contains(content, piece) ==
    \E i \in 0..(Len(content) - Len(piece)) : SubSeq(content, i + 1, i + Len(piece)) = piece

\* content.replace(old, new): the occurrences of old from left to right
RECURSIVE str_replace(_, _, _)
str_replace(content, old, new) ==
    IF Len(content) < Len(old) THEN content
    ELSE IF SubSeq(content, 1, Len(old)) = old
    THEN new \o str_replace(SubSeq(content, Len(old) + 1, Len(content)), old, new)
    ELSE <<Head(content)>> \o str_replace(Tail(content), old, new)

\* what a call of fix_protobuf_imports leaves: the value returned and the file
Fixed(returned, file) == [returned |-> returned, file |-> file]

\* (mutant) a test that does not look for the guarded import
needs_fix_any(content) == str_contains(content, old_import)

\* old_import in content and new_import not in content
needs_fix(content) ==
    str_contains(content, old_import) /\ ~str_contains(content, new_import)

\* fix_imports.py: fix_protobuf_imports()
fix_protobuf_imports(file) ==
    IF ~file.exists THEN Fixed(FALSE, file)
    ELSE IF needs_fix(file.content)
    THEN Fixed(TRUE, File(str_replace(file.content, old_import, new_import)))
    ELSE Fixed(TRUE, file)

\* run_server.py: fix_protobuf_imports()
run_server_fix_protobuf_imports(file) ==
    IF ~file.exists THEN Fixed(FALSE, file)
    ELSE IF str_contains(file.content, old_import) /\ ~str_contains(file.content, new_import)
    THEN Fixed(TRUE, File(str_replace(file.content, old_import, new_import)))
    ELSE Fixed(TRUE, file)

\* a started server, seen from the directory of its generated files
InitFix ==
    /\ InitPool
    /\ Len(adapters) = 0

\* grpc_tools.protoc writes ava_bot_pb2_grpc.py
ProtocGenerates(content) ==
    /\ ~grpc_file.exists
    /\ fix_returned = <<>>
    /\ grpc_file' = File(content)
    /\ UNCHANGED <<service_vars, gmail_vars, tts_vars, fix_returned>>

\* a call of the function of fix_imports.py
FixImports ==
    /\ Len(fix_returned) < MaxFixes
    /\ LET fixed == fix_protobuf_imports(grpc_file) IN
       /\ grpc_file' = fixed.file
       /\ fix_returned' = Append(fix_returned,
                                  [copy |-> "fix_imports.py", returned |-> fixed.returned,
                                   before |-> grpc_file, after |-> fixed.file])
    /\ UNCHANGED <<service_vars, gmail_vars, tts_vars>>

\* a call of the function of run_server.py
RunServerFixImports ==
    /\ Len(fix_returned) < MaxFixes
    /\ LET fixed == run_server_fix_protobuf_imports(grpc_file) IN
       /\ grpc_file' = fixed.file
       /\ fix_returned' = Append(fix_returned,
                                  [copy |-> "run_server.py", returned |-> fixed.returned,
                                   before |-> grpc_file, after |-> fixed.file])
    /\ UNCHANGED <<service_vars, gmail_vars, tts_vars>>

NextFix ==
    \/ \E content \in Contents : ProtocGenerates(content)
    \/ FixImports
    \/ RunServerFixImports

SpecFix == InitFix /\ [][NextFix]_vars

(***************************************************************************)
(* Properties                                                              *)
(***************************************************************************)
\* the declared names, in declaration order
DeclaredOrder == [i \in 1..Len(adapter_definitions) |-> adapter_definitions[i][1]]

\* a request has been handled
Served == pc = "serving" /\ request # NoValue /\ request.rpc = "ExecuteTool"

\* the last request made its provider call and the call answered
Answered == Served /\ outcome # NoValue

\* the last request got past json.loads and found its adapter
Dispatched ==
    /\ Served
    /\ json_loads(request.parameters).ok
    /\ dict_has(adapters, request.tool_name)

\* C1 as stated: load_all_adapters returns normally whichever declared
\* adapters fail and however they fail (any exception type), having attempted
\* every declaration, and the mapping holds every adapter that constructed and
\* passed the shape check.
C1_FailureIsolation ==
    /\ pc # "crashed"
    /\ pc = "serving" =>
        /\ attempted = DeclaredOrder
        /\ \A n \in succeeded : dict_has(adapters, n)

\* C1 amended: a failed import, a missing class and a constructor raising an
\* exception derived from Exception are logged and skipped: the loop goes on
\* with the next declaration and keeps what it loaded, load_all_adapters
\* returns having attempted every declaration, and the mapping holds every
\* adapter that constructed and passed the shape check.  Only an exception
\* that does not derive from Exception (SystemExit, KeyboardInterrupt) leaves
\* load_all_adapters.
C1_FailureIsolationOfExceptions ==
    /\ pc = "crashed" => raised # NoValue /\ raised.base = "BaseException"
    /\ raised # NoValue => pc = "crashed"
    /\ last_log.text \in {"No se pudo importar", "Clase no encontrada",
                          "Error inicializando", "Error cargando",
                          "no tiene metodos requeridos"} =>
        /\ pc = "for"
        /\ idx = Len(attempted) + 1
        /\ \A n \in succeeded : dict_has(loaded_adapters, n)
    /\ pc = "serving" =>
        /\ attempted = DeclaredOrder
        /\ \A n \in succeeded : dict_has(adapters, n)

\* C1 witness: the loader has returned with some adapters loaded and others
\* skipped.
C1_Witness ==
    /\ pc = "serving"
    /\ Len(adapters) >= 1
    /\ Len(adapters) < Len(adapter_definitions)
    /\ attempted = DeclaredOrder

\* C2: the keys of loaded_adapters are exactly the names whose construction
\* and required-shape check succeeded, each once, in declaration order (at
\* every point of the load, and in the mapping the server keeps after it).
C2_LoadedInDeclarationOrder ==
    /\ dict_keys(loaded_adapters) = SelectSeq(DeclaredOrder, LAMBDA n : n \in succeeded)
    /\ \A n \in DeclaredNames : dict_has(loaded_adapters, n) <=> n \in succeeded
    /\ pc = "serving" => adapters = loaded_adapters

\* C2 witness: the load is over with two adapters loaded and the others not.
C2_Witness ==
    /\ pc = "serving"
    /\ Len(loaded_adapters) >= 2
    /\ Cardinality(succeeded) < Len(adapter_definitions)

C4_ProviderExceptionEnvelope ==
    Answered /\ ~outcome.ok =>
        /\ response.returned
        /\ response.message.success = FALSE
        /\ response.message.text # <<>>
        /\ response.message.text = outcome.msg
        /\ status_code = "INTERNAL"

\* C5 as stated: a response with success=false is never the empty default
\* message: its text is a non-empty error summary.
C5_EnvelopeInvariant ==
    Served /\ response.returned /\ response.message.success = FALSE =>
        /\ response.message # DefaultToolResponse
        /\ response.message.text # <<>>

\* C6 as stated: whatever the provider returns, raw_result is the full
\* serialization of it and deserializes back to it.
C6_RawResultRoundTrip ==
    Answered /\ outcome.ok =>
        /\ response.returned
        /\ json_dumps(outcome.value).ok
        /\ response.message.raw_result = json_dumps(outcome.value).value
        /\ json_loads(response.message.raw_result) = Returns(outcome.value)

\* the result is a mapping whose content is a sequence with a first element
\* that carries a text field
HasFirstText(v) ==
    /\ v.t = "dict"
    /\ dict_contains(v, PyStr(<<"content">>))
    /\ LET content == dict_get(v, PyStr(<<"content">>), PyNone) IN
        /\ content.t \in {"list", "tuple"}
        /\ Len(content.items) >= 1
        /\ content.items[1].t = "dict"
        /\ dict_contains(content.items[1], PyStr(<<"text">>))

FirstText(v) ==
    dict_get(dict_get(v, PyStr(<<"content">>), PyNone).items[1], PyStr(<<"text">>), PyNone)

\* C7 as stated: when the provider returns a mapping whose content is a
\* sequence with a first element carrying text, the envelope's text is that
\* text.
C7_ContentText ==
    Answered /\ outcome.ok /\ HasFirstText(outcome.value) =>
        /\ response.returned
        /\ PyStr(response.message.text) = FirstText(outcome.value)

\* C8 as stated: when the provider returns a mapping without the
\* content[0].text shape, the text is str(mapping) with success=true; when it
\* returns something that is no mapping, the text is its str.
C8_OtherBranches ==
    Answered /\ outcome.ok /\ ~HasFirstText(outcome.value) =>
        /\ response.returned
        /\ response.message.text = str(outcome.value)
        /\ isinstance_dict(outcome.value) => response.message.success = TRUE

\* C9: where ExecuteTool selects the call shape (the parameters deserialized
\* and the tool is loaded): an adapter exposing execute gets execute called and
\* not process, one exposing only process gets process called, and one
\* exposing neither gets no call and the request fails with INTERNAL.
C9_CallShapeSelection ==
    Dispatched =>
        LET adapter == dict_item(adapters, request.tool_name) IN
        /\ hasattr(adapter, "execute") =>
                invoked = <<[tool |-> request.tool_name, method |-> "execute"]>>
        /\ ~hasattr(adapter, "execute") /\ hasattr(adapter, "process") =>
                invoked = <<[tool |-> request.tool_name, method |-> "process"]>>
        /\ ~hasattr(adapter, "execute") /\ ~hasattr(adapter, "process") =>
                /\ invoked = <<>>
                /\ status_code = "INTERNAL"
                /\ response.returned
                /\ response.message.success = FALSE

\* C9 witness: a request reached an adapter that exposes neither call shape
\* and failed with INTERNAL.
C9_Witness ==
    /\ Dispatched
    /\ dict_item(adapters, request.tool_name).methods = {}
    /\ status_code = "INTERNAL"
    /\ invoked = <<>>

\* C10 as stated: parameters that do not deserialize are reported as a client
\* error, not as an unhandled fault or an internal failure, before any lookup
\* or provider call.
C10_MalformedParametersClientError ==
    Served /\ ~json_loads(request.parameters).ok =>
        /\ response.returned
        /\ status_code \notin {"OK", "INTERNAL", "UNKNOWN"}
        /\ invoked = <<>>

\* C11: in load_all_adapters sys.stdout is the null stream during every
\* module import and every constructor call, it is the original stream again
\* after each of them on every path (the call returned, ImportError, an
\* exception of the constructor, any other exception) before the next
\* declaration is processed, and when load_all_adapters is left sys.stdout
\* and sys.stderr are the original streams.
C11_StdoutRedirection ==
    /\ pc \in {"import", "construct"} => sys_stdout = "null_stream"
    /\ pc \in {"for", "imported"} => sys_stdout = "original"
    /\ pc \in {"serving", "crashed"} =>
            sys_stdout = "original" /\ sys_stderr = "original"

\* C11 witness: a constructor raised, the stream is the original one again
\* and the loop is at the next declaration.
C11_Witness ==
    /\ pc = "for"
    /\ last_log.text = "Error inicializando"
    /\ idx <= Len(adapter_definitions)
    /\ sys_stdout = "original"

\* C12: an adapter declared as file_manager is loaded only if its instance
\* exposes execute (process alone is not enough); every other declared
\* adapter is loaded if its instance exposes execute or process; an instance
\* exposing none of the shapes required of it is not put into
\* loaded_adapters.
C12_RequiredCallShape ==
    /\ \A i \in 1..Len(loaded_adapters) :
            LET item == loaded_adapters[i] IN
            IF item.name = "file_manager"
            THEN "execute" \in item.instance.methods
            ELSE item.instance.methods \cap {"execute", "process"} # {}
    /\ \A name \in succeeded : dict_has(loaded_adapters, name)
    /\ last_log.text = "no tiene metodos requeridos" =>
            ~dict_has(loaded_adapters, last_log.name)

\* C12 witness: the instance of file_manager was turned down for its
\* methods while an adapter exposing process alone is loaded.
C12_Witness ==
    /\ pc = "for"
    /\ last_log = Log("no tiene metodos requeridos", "file_manager")
    /\ ~dict_has(loaded_adapters, "file_manager")
    /\ \E i \in 1..Len(loaded_adapters) : loaded_adapters[i].instance.methods = {"process"}

\* C13: the loading of the registry is complete before the server serves: in
\* every execution of start_grpc_server no Health, ListTools or ExecuteTool
\* handler runs before CleanMCPServer.initialize has returned, so no request
\* observes a partially populated adapter mapping.
C13_LoadedBeforeServing ==
    /\ request # NoValue =>
            /\ initialized
            /\ idx = Len(adapter_definitions) + 1
            /\ adapters = loaded_adapters
            /\ \A name \in succeeded : dict_has(adapters, name)
    /\ ~initialized =>
            request = NoValue /\ response = NoValue /\ request_count = 0

\* C13 witness: a ListTools request was served by a server whose loader
\* loaded MaxLoaded adapters.
C13_Witness ==
    /\ request # NoValue
    /\ request.rpc = "ListTools"
    /\ initialized
    /\ Len(adapters) = MaxLoaded

\* C14: the loaded adapter mapping is read-only after boot: no Health,
\* ListTools or ExecuteTool request, successful or failing, adds, removes or
\* replaces an entry of the adapter mapping; its keys and the instance bound
\* to each key stay those the single load produced.
C14_MappingReadOnly ==
    [][initialized =>
            /\ adapters' = adapters
            /\ loaded_adapters' = loaded_adapters
            /\ adapters' = loaded_adapters']_vars

\* C14 witness: an ExecuteTool request failed with INTERNAL on a server
\* holding MaxLoaded adapters.
C14_Witness ==
    /\ Served
    /\ status_code = "INTERNAL"
    /\ Len(adapters) = MaxLoaded
    /\ adapters = loaded_adapters

\* C15 as stated: in one load_all_adapters run every declaration is
\* attempted exactly once (the number of attempts equals the number of
\* declarations), and an adapter whose load failed is never retried and
\* stays absent from the adapter mapping for the rest of the process,
\* including across later ExecuteTool requests naming it.
C15_EveryDeclarationAttemptedOnce ==
    /\ attempted = SubSeq(DeclaredOrder, 1, Len(attempted))
    /\ pc \in {"serving", "crashed"} => Len(attempted) = Len(adapter_definitions)
    /\ pc = "serving" =>
            \A name \in DeclaredNames \ succeeded : ~dict_has(adapters, name)
    /\ Served /\ request.tool_name \in DeclaredNames \ succeeded =>
            ~dict_has(adapters, request.tool_name) /\ invoked = <<>>

\* C15: no declaration is attempted twice, and the attempts follow the
\* declarations; a run of load_all_adapters that returns has attempted
\* every declaration exactly once, and a run that an exception leaves has
\* attempted the declarations up to the raising one and none after it; an
\* adapter whose load failed stays absent from the adapter mapping, also
\* when later ExecuteTool requests name it, and those requests call nothing.
C15_AttemptedOnceNoRetry ==
    /\ attempted = SubSeq(DeclaredOrder, 1, Len(attempted))
    /\ pc = "serving" => attempted = DeclaredOrder
    /\ pc = "crashed" => Len(attempted) = idx
    /\ pc = "serving" =>
            \A name \in DeclaredNames \ succeeded : ~dict_has(adapters, name)
    /\ Served /\ request.tool_name \in DeclaredNames \ succeeded =>
            ~dict_has(adapters, request.tool_name) /\ invoked = <<>>

\* C15 witness: every declaration was attempted once, image failed to load,
\* and a later ExecuteTool request naming it found no adapter.
C15_Witness ==
    /\ Served
    /\ attempted = DeclaredOrder
    /\ request.tool_name = "image"
    /\ "image" \notin succeeded
    /\ ~dict_has(adapters, "image")
    /\ status_code = "NOT_FOUND"

\* a ListTools request has been handled
Listed == pc = "serving" /\ request # NoValue /\ request.rpc = "ListTools"

\* the names of a sequence of descriptors, in order
DescriptorNames(tools) == [i \in 1..Len(tools) |-> tools[i].name]

\* the field names a schema describes, and the ones it requires
SchemaProperties(schema) ==
    LET properties == dict_get(schema, PyStr(<<"properties">>), PyDict(<<>>)) IN
    {properties.items[i][1] : i \in 1..Len(properties.items)}

SchemaRequired(schema) ==
    LET required == dict_get(schema, PyStr(<<"required">>), PyList(<<>>)) IN
    {required.items[i] : i \in 1..Len(required.items)}

\* C16: ListTools always succeeds, also with an empty adapter set, and its
\* total_count is the number of loaded adapters; get_available_tools returns
\* exactly one descriptor per loaded adapter, in the iteration (declaration)
\* order of the adapter mapping.
C16_ListToolsCountsLoaded ==
    /\ pc = "serving" =>
            DescriptorNames(get_available_tools(adapters)) = dict_keys(adapters)
    /\ Listed =>
            /\ response.returned
            /\ status_code = "OK"
            /\ response.message.total_count = Len(adapters)
            /\ DOMAIN response.message.tools = {adapters[i].name : i \in 1..Len(adapters)}
            /\ DOMAIN response.message.schemas = DOMAIN response.message.tools
            /\ Cardinality(DOMAIN response.message.tools) = Len(adapters)

\* C16 witness: ListTools answered a server with MaxLoaded adapters, one
\* descriptor each.
C16_Witness ==
    /\ Listed
    /\ response.returned
    /\ Len(adapters) = MaxLoaded
    /\ response.message.total_count = MaxLoaded

\* C17: in every tool descriptor get_available_tools produces, for every
\* set of loaded adapter names, each field name of the schema's required
\* list is a key of the schema's properties mapping; the same holds of the
\* schemas ListTools sends, once deserialized.
C17_RequiredFieldsAreProperties ==
    /\ \A i \in 1..Len(loaded_adapters) :
            LET tool == get_available_tools(loaded_adapters)[i] IN
            SchemaRequired(tool.inputSchema) \subseteq SchemaProperties(tool.inputSchema)
    /\ Listed /\ response.returned =>
            \A name \in DOMAIN response.message.schemas :
                LET schema == json_loads(response.message.schemas[name]) IN
                /\ schema.ok
                /\ SchemaRequired(schema.value) \subseteq SchemaProperties(schema.value)

\* C17 witness: ListTools sent the schema of gmail, whose three required
\* fields are among its five properties.
C17_Witness ==
    /\ Listed
    /\ response.returned
    /\ "gmail" \in DOMAIN response.message.schemas
    /\ LET schema == json_loads(response.message.schemas["gmail"]).value IN
       /\ SchemaRequired(schema) = {PyStr(<<"to">>), PyStr(<<"subject">>), PyStr(<<"body">>)}
       /\ Cardinality(SchemaProperties(schema)) = 5

\* the declared names get_available_tools has a branch for
DedicatedNames == DeclaredNames \ {"image_display"}

\* C18: every loaded adapter name gets a schema: a name with a dedicated
\* entry gets that entry's properties and required list, a name without one
\* (image_display) gets the empty permissive schema, with no properties and
\* no required fields, and no loaded adapter is left out of the catalog for
\* lack of a schema.
C18_EveryLoadedAdapterHasSchema ==
    /\ \A i \in 1..Len(loaded_adapters) :
            LET name == loaded_adapters[i].name
                tools == get_available_tools(loaded_adapters)
            IN  /\ Len(tools) = Len(loaded_adapters)
                /\ tools[i].name = name
                /\ dict_get(tools[i].inputSchema, PyStr(<<"type">>), PyNone) = PyStr(<<"object">>)
                /\ IF name \in DedicatedNames
                   THEN /\ SchemaProperties(tools[i].inputSchema) # {}
                        /\ SchemaRequired(tools[i].inputSchema) # {}
                   ELSE /\ SchemaProperties(tools[i].inputSchema) = {}
                        /\ SchemaRequired(tools[i].inputSchema) = {}
    /\ Listed /\ response.returned =>
            \A i \in 1..Len(adapters) :
                /\ adapters[i].name \in DOMAIN response.message.schemas
                /\ json_loads(response.message.schemas[adapters[i].name]) =
                        Returns(schema_for(adapters[i].name))

\* C18 witness: ListTools listed image_display, which has no branch of its
\* own, with the schema that has no properties and no required fields.
C18_Witness ==
    /\ Listed
    /\ response.returned
    /\ dict_has(adapters, "image_display")
    /\ "image_display" \in DOMAIN response.message.tools
    /\ json_loads(response.message.schemas["image_display"]) =
            Returns(input_schema(<<>>, <<>>))

HealthStep ==
    /\ request' # NoValue
    /\ request'.rpc = "Health"
    /\ <<request, response, reported>>' # <<request, response, reported>>

\* C20 as stated: Health is read-only and the request counter it reports is
\* monotonically increasing: over any interleaving of concurrent Health,
\* ListTools and ExecuteTool requests on the worker pool the value of
\* request_count never decreases between two successive observations,
\* Health itself does not change it, and total_tools is the size of the
\* adapter mapping.
C20_HealthCounterMonotonic ==
    [][/\ Len(reported) = 1 /\ Len(reported') = 1 => reported'[1] >= reported[1]
       /\ HealthStep =>
            /\ request_count' = request_count
            /\ adapters' = adapters
            /\ response'.message.request_count = request_count
            /\ response'.message.total_tools = Len(adapters)]_vars

\* worker t is inside a provider call that never returns
Hung(t) == workers[t].pc = "in_call" /\ in_flight[t].hung

\* worker t serves an ExecuteTool request for a name other than the one
\* worker u is hung on
ServesOtherTool(t, u) ==
    /\ t # u
    /\ Hung(u)
    /\ workers[t] # Idle
    /\ in_flight[t].tool_name # in_flight[u].tool_name

\* C21: concurrent ExecuteTool calls against two different tool names
\* complete independently when the pool has at least 2 workers: a provider
\* call for tool A that never returns does not keep a concurrent call for
\* tool B from eventually returning its response (B's own provider call
\* being one that returns).
C21_NoHeadOfLineBlocking ==
    \A t \in Workers : \A u \in Workers \ {t} :
        (ServesOtherTool(t, u) /\ ~Hung(t)) ~> (workers[t] = Idle \/ Hung(t))

\* C21 witness: a worker is hung inside the provider of one tool, and after
\* it entered that call a request for another loaded tool was dispatched to
\* its provider and answered with success.
C21_Witness ==
    \E u \in Workers :
        /\ Hung(u)
        /\ request # NoValue
        /\ request # in_flight[u].before
        /\ request.tool_name # in_flight[u].tool_name
        /\ invoked # <<>>
        /\ response.returned
        /\ response.message.success
        /\ \E t \in Workers \ {u} : workers[t] = Idle

\* C22: the dispatcher applies no mutual exclusion per tool name: a request
\* that reaches the provider call enters it whatever the other threads are
\* inside of, and the threads inside the call of one tool name are inside
\* the same provider instance, the one the mapping holds for the name.
C22_NoMutualExclusion ==
    \A t \in Workers :
        /\ (/\ workers[t].pc = "body"
            /\ in_flight[t] # NoValue
            /\ calls_provider(adapters, in_flight[t].tool_name, in_flight[t].parameters))
               => ENABLED (\E hangs \in BOOLEAN : WorkerEntersCall(t, hangs))
        /\ workers[t].pc = "in_call"
               => in_flight[t].adapter = dict_item(adapters, in_flight[t].tool_name)

\* C22 witness: two threads are inside the call of the same provider
\* instance at the same time.
C22_Witness ==
    \E t, u \in Workers :
        /\ t # u
        /\ workers[t].pc = "in_call"
        /\ workers[u].pc = "in_call"
        /\ in_flight[t].tool_name = in_flight[u].tool_name
        /\ in_flight[t].adapter = in_flight[u].adapter

\* the dispatch of the last request failed: the tool was not found, its
\* adapter has no call shape, the provider raised, or its result cannot be
\* serialized
DispatchFailed ==
    \/ ~dict_has(adapters, request.tool_name)
    \/ call_shape(dict_item(adapters, request.tool_name)) = "none"
    \/ outcome # NoValue /\ ~outcome.ok
    \/ outcome # NoValue /\ outcome.ok /\ ~json_serializable(outcome.value)

\* C23 as stated: no automatic retry and no silent drop at dispatch: each
\* ExecuteTool request invokes the provider at most once, and every request
\* whose dispatch fails (tool not found, no call shape, provider exception,
\* result that cannot be serialized) ends with a non-OK status set on that
\* same request.
C23_NoRetryNoSilentDrop ==
    Served =>
        /\ Len(invoked) <= 1
        /\ DispatchFailed => status_code # "OK"

\* C24: each descriptor's description is the provider's description
\* attribute when the provider has one, and otherwise a generated default
\* string that incorporates the adapter name.
C24_DescriptionFromProviderOrDefault ==
    \A k \in 1..Len(catalogs) :
        /\ Len(catalogs[k]) = Len(adapters)
        /\ \A i \in 1..Len(adapters) :
              LET provider == adapters[i].instance
                  descriptor == catalogs[k][i]
              IN  /\ provider.description # NoValue =>
                        descriptor.description = provider.description
                  /\ provider.description = NoValue =>
                        /\ descriptor.description.t = "str"
                        /\ \E c \in 1..Len(descriptor.description.s) :
                                descriptor.description.s[c] = adapters[i].name

\* C24 witness: a catalog was built of a provider that has a description
\* and of one that has none.
C24_Witness ==
    /\ Listed
    /\ Len(catalogs) = 1
    /\ \E i, j \in 1..Len(adapters) :
            /\ adapters[i].instance.description # NoValue
            /\ catalogs[1][i].description = adapters[i].instance.description
            /\ adapters[j].instance.description = NoValue
            /\ catalogs[1][j].description = default_description(adapters[j].name)

\* the requests whose handler has not yet finished self.request_count += 1
Uncounted == { t \in Workers : workers[t].pc \in {"read_count", "write_count"} }

\* C25 as stated: request_count equals the number of ListTools and
\* ExecuteTool requests that have started (those still inside the increment
\* set apart), for every interleaving of concurrent requests on the pool:
\* no increment is lost by the unsynchronized read-modify-write.
C25_NoLostIncrement ==
    request_count = started - Cardinality(Uncounted)

\* C26: the envelope's success flag depends only on whether the provider
\* call returned and its result was serialized, not on the result's content:
\* whenever a provider returns a mapping carrying its own success=false or an
\* error text, ExecuteTool still returns success=true with an OK status, the
\* mapping serialized in raw_result.
C26_SuccessIgnoresResultContent ==
    /\ Answered /\ outcome.ok /\ outcome.value \in ProviderFailures =>
            /\ response.returned
            /\ response.message.success = TRUE
            /\ status_code = "OK"
            /\ response.message.raw_result = json_dumps(outcome.value).value
    /\ Answered /\ response.returned /\ response.message.success =>
            /\ outcome.ok
            /\ json_serializable(outcome.value)

\* C26 witness: a provider answered {"success": False, "error": ...} and the
\* envelope returned says success=true.
C26_Witness ==
    /\ Answered
    /\ outcome.ok
    /\ isinstance_dict(outcome.value)
    /\ dict_get(outcome.value, PyStr(<<"success">>), PyNone) = PyBool(FALSE)
    /\ response.returned
    /\ response.message.success = TRUE
    /\ status_code = "OK"

\* the last action handled was a plain send by OAuth that failed: send_email
\* answered no success, or raised
OAuthSendFailed ==
    /\ last_send # NoValue
    /\ last_send.arguments.action = "send"
    /\ last_send.arguments.to
    /\ last_send.arguments.attach = "none"
    /\ gmail_sender # "None"
    /\ last_send.oauth_outcome # "success"

C28_ConnectionTestedOnce ==
    /\ tests_run <= 1
    /\ handled >= 1 => tests_run = 1
    /\ \A t \in Workers : gmail_threads[t].pc = "action" => tests_run = 1

\* C29 as stated: every temporary audio file created by
\* _openai_text_to_speech has had its cleanup (_cleanup_file) attempted
\* before the call returns, on every return path, the one where the speech
\* generation fails with a model error included.
C29_TempFileCleanupAttempted ==
    tts_pc = "outside" => \A i \in 1..Len(created) : created[i] \in cleaned

\* C30: fix_protobuf_imports is idempotent on the generated gRPC file:
\* applied twice it leaves the same content as applied once, for content
\* that holds the plain import, content already rewritten, and content
\* holding neither; it returns False only when the file is missing; and the
\* copy in run_server.py gives the same content and return value as the one
\* in fix_imports.py.
C30_FixImportsIdempotent ==
    \A k \in 1..Len(fix_returned) :
        LET call == fix_returned[k] IN
        /\ call.returned = FALSE <=> ~call.before.exists
        /\ k > 1 => call.after = call.before
        /\ fix_protobuf_imports(call.after).file = call.after
        /\ run_server_fix_protobuf_imports(call.after).file = call.after
        /\ fix_protobuf_imports(call.before) = run_server_fix_protobuf_imports(call.before)
        /\ (call.before.exists /\ ~str_contains(call.before.content, old_import))
                => call.after = call.before
        /\ (call.before.exists /\ str_contains(call.before.content, new_import))
                => call.after = call.before
        /\ (/\ call.before.exists
            /\ str_contains(call.before.content, old_import)
            /\ ~str_contains(call.before.content, new_import))
                => /\ str_contains(call.after.content, new_import)
                   /\ Len(call.after.content) > Len(call.before.content)

\* C30 witness: the two copies were applied one after the other to a file
\* that held the plain import; the first rewrote it, the second left it.
C30_Witness ==
    /\ Len(fix_returned) = 2
    /\ fix_returned[1].copy # fix_returned[2].copy
    /\ fix_returned[1].before.exists
    /\ fix_returned[1].after # fix_returned[1].before
    /\ fix_returned[2].after = fix_returned[1].after
    /\ fix_returned[2].returned

====
